---- MODULE Spec2Model ----
(***************************************************************************)
(* Model of extensions/projects-ux/index.ts: the peer state store, the     *)
(* project lifecycle commands and the two-step (arm / confirm / cancel)    *)
(* wipe protocol with its backup.                                          *)
(*                                                                         *)
(* Representation.  A JavaScript string is a sequence of one-character     *)
(* strings, so that trimming, lower-casing and slugifying are computed     *)
(* character by character.  The value `undefined` of an optional string or *)
(* array field is the one-element sequence Undefined; an absent number is  *)
(* NoNumber.  A timestamp produced by nowIso() is the millisecond clock    *)
(* reading it formats.                                                     *)
(*                                                                         *)
(* Specifications.  Spec: the wipe commands on stores that the lifecycle   *)
(* commands built.  SpecArm: the same commands with two nonce values.      *)
(* SpecLife: new, switch, off and the memory commands from an empty store. *)
(* SpecLegacy: the wipe commands on a store of an older version.           *)
(* SpecEnsure: ensureDefaultProject on a set of PeerState values.          *)
(* SpecWrite: writeJsonAtomic by two writers, chunk by chunk.              *)
(* SpecFail: the commands with a failing file-system call.                 *)
(* SpecLoad: loadStore on the contents a state file can hold.              *)
(* SpecHook: commands and the before_agent_start hook over the cache.      *)
(* SpecKeys: the peer keys of the command, hook and routing entry points.  *)
(* SpecRoute: new, switch and resolve_room_key over the store cache.       *)
(* SpecTwice: ensureDefaultProject applied twice.                          *)
(* SpecToggle: on, off, new and switch with the active id before off.      *)
(* SpecBoth: on, new and the two hooks over the store cache.               *)
(* SpecTasks: two handlers in flight, one file-system call at a time.      *)
(* SpecFrame: an armed wipe among the other commands and the hooks.        *)
(* SpecStable: on, switch and the wipe of one project with message ids.    *)
(* SpecMemory: the remember commands with two tokens, in order.            *)
(* SpecPreface: the text of the pre-turn hook for names of several lengths.*)
(***************************************************************************)
EXTENDS Integers, Sequences, FiniteSets, TLC

\* ------------------------------------------------------------------------
\* Bounds of the model
\* ------------------------------------------------------------------------

\* the wall clock stops advancing at MaxClock milliseconds
MaxClock == 120001

\* ------------------------------------------------------------------------
\* Strings
\* ------------------------------------------------------------------------

Undefined == <<"undefined">>
NoNumber == -1

Str_proj == <<"p", "r", "o", "j", "-">>
Str_general == <<"g", "e", "n", "e", "r", "a", "l">>
Str_inbox == <<"i", "n", "b", "o", "x">>
Str_projinbox == Str_proj \o Str_inbox
Str_inboxdash == Str_inbox \o <<"-">>

UpperChars == <<"A", "B", "C", "D", "E", "F", "G", "H", "I", "J", "K", "L", "M",
                "N", "O", "P", "Q", "R", "S", "T", "U", "V", "W", "X", "Y", "Z">>
LowerChars == <<"a", "b", "c", "d", "e", "f", "g", "h", "i", "j", "k", "l", "m",
                "n", "o", "p", "q", "r", "s", "t", "u", "v", "w", "x", "y", "z">>
DigitChars == {"0", "1", "2", "3", "4", "5", "6", "7", "8", "9"}
SpaceChars == {" "}

Range(s) == {s[i] : i \in DOMAIN s}

\* String.prototype.toLowerCase, one character
lowerChar(c) ==
    IF \E i \in 1..26 : UpperChars[i] = c
    THEN LowerChars[CHOOSE i \in 1..26 : UpperChars[i] = c]
    ELSE c

\* String.prototype.toLowerCase
toLowerCase(s) == [i \in 1..Len(s) |-> lowerChar(s[i])]

RECURSIVE dropLeading(_, _)
dropLeading(s, set) ==
    IF s # <<>> /\ Head(s) \in set THEN dropLeading(Tail(s), set) ELSE s

RECURSIVE dropTrailing(_, _)
dropTrailing(s, set) ==
    IF s # <<>> /\ s[Len(s)] \in set
    THEN dropTrailing(SubSeq(s, 1, Len(s) - 1), set)
    ELSE s

\* String.prototype.trim
trim(s) == dropTrailing(dropLeading(s, SpaceChars), SpaceChars)

\* String.prototype.slice(0, n)
slice0(s, n) == IF Len(s) > n THEN SubSeq(s, 1, n) ELSE s

\* s.startsWith(prefix)
startsWith(s, prefix) ==
    Len(s) >= Len(prefix) /\ SubSeq(s, 1, Len(prefix)) = prefix

\* s.replace(/[^...]+/g, "-") for the character class `keep`: every maximal
\* run of characters outside `keep` becomes one hyphen
RECURSIVE replaceRuns(_, _, _)
replaceRuns(s, keep, inRun) ==
    IF s = <<>> THEN <<>>
    ELSE IF Head(s) \in keep
         THEN <<Head(s)>> \o replaceRuns(Tail(s), keep, FALSE)
         ELSE IF inRun THEN replaceRuns(Tail(s), keep, TRUE)
              ELSE <<"-">> \o replaceRuns(Tail(s), keep, TRUE)

SlugChars == Range(LowerChars) \cup DigitChars

slugifyId(input) ==
    slice0(dropTrailing(dropLeading(
        replaceRuns(toLowerCase(trim(input)), SlugChars, FALSE), {"-"}), {"-"}), 48)

\* a JavaScript string used as a condition: "" and undefined are falsy
Truthy(s) == s # <<>> /\ s # Undefined

\* ------------------------------------------------------------------------
\* Configuration and inputs
\* ------------------------------------------------------------------------

defaultProjectName == <<"G", "e", "n", "e", "r", "a", "l">>

\* cfg.maxProjects, as configured for the model
maxProjects == 3
wipeConfirmTtlMs == 2 * 60 * 1000

\* the id of the legacy default project
legacyProjectId == Str_projinbox

\* `proj-${slugifyId(defaultProjectName) || "general"}`
defaultProjectId ==
    Str_proj \o (IF slugifyId(defaultProjectName) # <<>>
                 THEN slugifyId(defaultProjectName) ELSE Str_general)

\* peer keys, as buildPeerKeyFromCommandCtx yields them for two Telegram senders
Peer1 == "telegram:u1"
Peer2 == "telegram:u2"
Peers == {Peer1, Peer2}

\* the peer whose wipe commands are followed; the other one is a bystander
\* that only holds state
Users == {Peer1}

\* names given to /projects new
Name2 == <<"p", "2">>
Name3 == <<"p", "3">>
Names == {Name2, Name3}

\* values of crypto.randomBytes(4).toString("hex")
Nonces == {"0a"}

\* ctx.messageId: absent, or a number
MessageIds == {NoNumber, 7}

\* amounts by which the wall clock advances between two commands
ClockSteps == {wipeConfirmTtlMs, wipeConfirmTtlMs + 1}

\* outcomes of a file-system call that the code wraps in try/catch
IoOutcomes == {"ok", "fail"}

\* outcomes of the backup copy, the rename and the copy-back of one wipe: a
\* call after a failed copy or a failed rename is never made
IoRuns ==
    {<<"ok", "ok", "ok">>, <<"fail", "ok", "ok">>, <<"ok", "fail", "ok">>,
     <<"ok", "ok", "fail">>}

\* ------------------------------------------------------------------------
\* Data model
\* ------------------------------------------------------------------------

\* peer.pendingWipe === undefined
NoPending ==
    [kind |-> "none", nonce |-> "", createdAtMs |-> NoNumber,
     projectId |-> Undefined, stamp |-> NoNumber, backupDir |-> NoNumber]

\* store.peers[peerKey] === undefined
NoPeer ==
    [version |-> 0, projectsEnabled |-> FALSE, activeProjectId |-> Undefined,
     previousProjectId |-> Undefined, effectiveFromMessageId |-> NoNumber,
     lastProjectId |-> Undefined, pendingReset |-> FALSE, projects |-> <<>>,
     globalTokens |-> Undefined, pendingWipe |-> NoPending]

\* the object literal withPeerState builds for a peer the store does not hold
NewPeer ==
    [NoPeer EXCEPT !.version = 1, !.activeProjectId = <<>>]

\* the object literal the wipe sub-command falls back to
WipeFallbackPeer ==
    [NoPeer EXCEPT !.version = 1, !.activeProjectId = <<>>, !.globalTokens = <<>>]

\* { version: 1, peers: {} }
EmptyPeers == [p \in Peers |-> NoPeer]

\* formatBackupStamp: the clock reading cut to second precision
formatBackupStamp(t) == t \div 1000

\* path.join(projectsUxParentDir, `backup_projects_ux_${stamp}`): one
\* directory per stamp, named by it
backupDirOf(stamp) == stamp

\* p.archived as a condition
IsArchived(p) == p.archived

\* Array.isArray(x) ? x : []
TokensOf(x) == IF x = Undefined THEN <<>> ELSE x

\* an includes that finds nothing
includesNothing(arr, x) == FALSE

\* arr.includes(x)
includes(arr, x) == \E i \in DOMAIN arr : arr[i] = x

\* Array.prototype.find over a project list gives the first project that
\* satisfies the test: here its index, the least of those that do, 0 when the
\* result is undefined
firstIndex(S) == IF S = {} THEN 0 ELSE CHOOSE i \in S : \A j \in S : i <= j

\* projects.find((p) => !p.archived)
findLive(projects) ==
    firstIndex({i \in DOMAIN projects : ~IsArchived(projects[i])})

\* projects.find((p) => p.id === id)
findById(projects, id) ==
    firstIndex({i \in DOMAIN projects : projects[i].id = id})

\* projects.find((p) => p.id === id && !p.archived)
findLiveById(projects, id) ==
    firstIndex({i \in DOMAIN projects : projects[i].id = id /\ ~IsArchived(projects[i])})

\* projects.find((p) => p.name.toLowerCase() === lower)
findByLowerName(projects, lower) ==
    firstIndex({i \in DOMAIN projects : toLowerCase(projects[i].name) = lower})

\* a search by name that tells upper case from lower case
findLiveByExactName(projects, name) ==
    firstIndex({i \in DOMAIN projects :
                   ~IsArchived(projects[i]) /\ projects[i].name = name})

\* projects.find((p) => !p.archived && p.name.toLowerCase() === name.toLowerCase())
findLiveByName(projects, name) ==
    firstIndex({i \in DOMAIN projects :
                   ~IsArchived(projects[i])
                   /\ toLowerCase(projects[i].name) = toLowerCase(name)})

\* a count of the archived projects
archivedCount(projects) ==
    Cardinality({i \in DOMAIN projects : IsArchived(projects[i])})

\* peer.projects.filter((p) => !p.archived).length
nonArchivedCount(projects) ==
    Cardinality({i \in DOMAIN projects : ~IsArchived(projects[i])})

\* ------------------------------------------------------------------------
\* ensureDefaultProject
\* ------------------------------------------------------------------------

\* the legacy "Inbox" test of the migration loop
isLegacyInbox(p) ==
    LET name == toLowerCase(trim(IF p.name = Undefined THEN <<>> ELSE p.name))
        id == toLowerCase(trim(IF p.id = Undefined THEN <<>> ELSE p.id))
    IN name = Str_inbox \/ id = Str_projinbox \/ startsWith(id, Str_inboxdash)

\* The five steps of ensureDefaultProject work on [peer |-> the peer so far,
\* changed |-> the flag so far].

\* the migration loop: a legacy "Inbox" project takes the default name
renameLegacy(s, defaultName) ==
    [peer |-> [s.peer EXCEPT !.projects =
                  [i \in DOMAIN s.peer.projects |->
                      IF isLegacyInbox(s.peer.projects[i])
                      THEN [s.peer.projects[i] EXCEPT !.name = defaultName]
                      ELSE s.peer.projects[i]]],
     changed |-> s.changed \/ \E i \in DOMAIN s.peer.projects :
                                 /\ isLegacyInbox(s.peer.projects[i])
                                 /\ s.peer.projects[i].name # defaultName]

\* `proj-${slugifyId(name) || "general"}`
defaultIdOf(name) ==
    Str_proj \o (IF slugifyId(name) # <<>> THEN slugifyId(name) ELSE Str_general)

\* the peer after the default project is pushed to its empty project list
withDefault(peer, id, defaultName, t) ==
    [peer EXCEPT
        !.projects = <<[id |-> id, name |-> defaultName, archived |-> FALSE,
                        createdAt |-> t, lastUsedAt |-> t, note |-> Undefined,
                        tokens |-> <<>>]>>,
        !.activeProjectId = id,
        !.lastProjectId = id,
        !.pendingReset = FALSE]

\* if (peer.projects.length === 0) { ... }
createDefault(s, defaultName, t) ==
    IF s.peer.projects = <<>>
    THEN [peer |-> withDefault(s.peer, defaultIdOf(defaultName), defaultName, t),
          changed |-> TRUE]
    ELSE s

\* every project gets a tokens array
fillTokens(s) ==
    [peer |-> [s.peer EXCEPT !.projects =
                  [i \in DOMAIN s.peer.projects |->
                      [s.peer.projects[i] EXCEPT
                          !.tokens = TokensOf(s.peer.projects[i].tokens)]]],
     changed |-> s.changed \/ \E i \in DOMAIN s.peer.projects :
                                 s.peer.projects[i].tokens = Undefined]

\* the peer gets a globalTokens array
fillGlobalTokens(s) ==
    [peer |-> [s.peer EXCEPT !.globalTokens = TokensOf(s.peer.globalTokens)],
     changed |-> s.changed \/ s.peer.globalTokens = Undefined]

\* peer.projects.find((p) => !p.archived) ?? peer.projects[0], 0 when undefined
firstProject(projects) ==
    IF findLive(projects) # 0
    THEN findLive(projects)
    ELSE IF projects # <<>> THEN 1 ELSE 0

\* a peer without an active project id gets the first project's
fillActive(s) ==
    IF ~Truthy(s.peer.activeProjectId) /\ firstProject(s.peer.projects) # 0
    THEN [peer |-> [s.peer EXCEPT !.activeProjectId =
                       s.peer.projects[firstProject(s.peer.projects)].id],
          changed |-> TRUE]
    ELSE s

\* returns [peer |-> the peer after self-healing, changed |-> the result]
ensureDefaultProject(peer, defaultName, t) ==
    fillActive(fillGlobalTokens(fillTokens(
        createDefault(renameLegacy([peer |-> peer, changed |-> FALSE], defaultName),
                      defaultName, t))))

\* ------------------------------------------------------------------------
\* Store access
\* ------------------------------------------------------------------------

\* state.json missing
NoFile == [exists |-> FALSE, peers |-> EmptyPeers]

\* state.json after writeJsonAtomic / writeStoreAndRefreshCache of a store
Written(peers) == [exists |-> TRUE, peers |-> peers]

\* loadStore: the empty store when state.json is missing
loadStore(f) == IF f.exists THEN f.peers ELSE EmptyPeers

\* no backup copy was made
NoCopy == [dir |-> NoNumber, complete |-> FALSE, content |-> NoFile]

\* what a handler leaves behind: state.json, the text it returned, its
\* file-system calls in order, the backup copy it made, and the tokens its
\* text lists
Result(f, text, calls, copy) ==
    [file |-> f, reply |-> text, io |-> calls, copied |-> copy, tokens |-> <<>>]

\* ctx.channel of the command contexts that yield the keys of Peers
channelOf(peerKey) == "telegram"

\* a withPeerState that always starts from a new peer
peerForAlwaysNew(f, peerKey) == NewPeer

\* the peer withPeerState hands to its callback: the stored one, or a new one
peerFor(f, peerKey) ==
    IF loadStore(f)[peerKey] # NoPeer /\ loadStore(f)[peerKey].version = 1
    THEN loadStore(f)[peerKey]
    ELSE NewPeer

\* withPeerState, given what its callback did to that peer: r is [peer |-> the
\* peer as the callback left it, result |-> what it returned].  The peer is
\* put back and the store written whatever the result is.
withPeerState(f, peerKey, r) ==
    Result(Written([loadStore(f) EXCEPT ![peerKey] = r.peer]), r.result, <<"write">>, NoCopy)

\* a bookkeeping that does not record the project that was active
selectProjectKeepPrevious(peer, idx, t) ==
    [peer EXCEPT
        !.activeProjectId = peer.projects[idx].id,
        !.lastProjectId = peer.projects[idx].id,
        !.projects[idx].lastUsedAt = t,
        !.pendingReset = TRUE]

\* the bookkeeping that on, new and switch share once a project is chosen:
\* previous/active/last ids, lastUsedAt and pendingReset
selectProject(peer, idx, t) ==
    [peer EXCEPT
        !.previousProjectId =
            IF Truthy(peer.activeProjectId) THEN peer.activeProjectId
            ELSE peer.previousProjectId,
        !.activeProjectId = peer.projects[idx].id,
        !.lastProjectId = peer.projects[idx].id,
        !.projects[idx].lastUsedAt = t,
        !.pendingReset = TRUE]

\* if (ctx.channel === "telegram" && typeof messageId === "number")
\*     peer.effectiveFromMessageId = messageId
setEffectiveFrom(peer, peerKey, messageId) ==
    IF channelOf(peerKey) = "telegram" /\ messageId # NoNumber
    THEN [peer EXCEPT !.effectiveFromMessageId = messageId]
    ELSE peer

\* findProject: by exact id first, then by lower-cased name; 0 when not found
findProject(peer, key) ==
    LET trimmed == trim(key)
        byId == findById(peer.projects, trimmed)
        byName == findByLowerName(peer.projects, toLowerCase(trimmed))
    IN IF trimmed = <<>> THEN 0 ELSE IF byId # 0 THEN byId ELSE byName

\* randomId("proj"): `proj-${Date.now().toString(36)}-${rand}`, rand being the
\* random part
randomId(prefix, rand) == prefix \o <<"-", "t", "-">> \o rand

\* ------------------------------------------------------------------------
\* /projects on, off, new, switch
\* ------------------------------------------------------------------------

onFn(peer, peerKey, messageId, t) ==
    LET e == ensureDefaultProject(peer, defaultProjectName, t).peer
        pe == [e EXCEPT !.projectsEnabled = TRUE]
        last == IF Truthy(pe.lastProjectId)
                THEN findLiveById(pe.projects, pe.lastProjectId)
                ELSE 0
        active == IF Truthy(pe.activeProjectId)
                  THEN findLiveById(pe.projects, pe.activeProjectId)
                  ELSE 0
        firstLive == findLive(pe.projects)
        chosen == IF last # 0 THEN last
                  ELSE IF active # 0 THEN active
                  ELSE IF firstLive # 0 THEN firstLive
                  ELSE IF pe.projects # <<>> THEN 1 ELSE 0
        sel == IF chosen # 0 THEN selectProject(pe, chosen, t) ELSE pe
    IN [peer |-> setEffectiveFrom(sel, peerKey, messageId), result |-> "Projects ON."]

projectsOn(f, peerKey, messageId, t) ==
    withPeerState(f, peerKey, onFn(peerFor(f, peerKey), peerKey, messageId, t))

offFn(peer, peerKey, messageId, t) ==
    LET e == ensureDefaultProject(peer, defaultProjectName, t).peer
    IN [peer |-> setEffectiveFrom([e EXCEPT !.projectsEnabled = FALSE], peerKey, messageId),
        result |-> "Projects OFF (Classic)."]

projectsOff(f, peerKey, messageId, t) ==
    withPeerState(f, peerKey, offFn(peerFor(f, peerKey), peerKey, messageId, t))

newFn(peer, peerKey, name, messageId, rand, t) ==
    LET e == ensureDefaultProject(peer, defaultProjectName, t).peer
        pe == [e EXCEPT !.projectsEnabled = TRUE]
        existing == findLiveByName(pe.projects, name)
        id == slugifyId(name)
        finalId == IF id # <<>> THEN Str_proj \o id
                   ELSE randomId(SubSeq(Str_proj, 1, 4), rand)
        project == [id |-> finalId, name |-> name, archived |-> FALSE, createdAt |-> t,
                    lastUsedAt |-> t, note |-> Undefined, tokens |-> Undefined]
        pushed == [pe EXCEPT !.projects = Append(pe.projects, project)]
    IN IF existing # 0
       THEN [peer |-> setEffectiveFrom(selectProject(pe, existing, t), peerKey, messageId),
             result |-> "Switched to existing project"]
       ELSE IF nonArchivedCount(pe.projects) >= maxProjects
       THEN [peer |-> pe, result |-> "Project limit reached"]
       ELSE [peer |-> setEffectiveFrom(
                          [selectProject(pushed, Len(pushed.projects), t)
                              EXCEPT !.projects = pushed.projects],
                          peerKey, messageId),
             result |-> "Created and switched to project"]

\* name is args.slice(3).trim(), not empty
projectsNew(f, peerKey, name, messageId, rand, t) ==
    withPeerState(f, peerKey, newFn(peerFor(f, peerKey), peerKey, name, messageId, rand, t))

switchFn(peer, peerKey, key, messageId, t) ==
    LET e == ensureDefaultProject(peer, defaultProjectName, t).peer
        pe == [e EXCEPT !.projectsEnabled = TRUE]
        project == findProject(pe, key)
    IN IF project = 0 \/ IsArchived(pe.projects[project])
       THEN [peer |-> pe, result |-> "Project not found"]
       ELSE [peer |-> setEffectiveFrom(selectProject(pe, project, t), peerKey, messageId),
             result |-> "Switched to project"]

\* key is args.slice("switch".length).trim(), not empty
projectsSwitch(f, peerKey, key, messageId, t) ==
    withPeerState(f, peerKey, switchFn(peerFor(f, peerKey), peerKey, key, messageId, t))

\* /projects list: a command that only reads, after the self-healing
projectsList(f, peerKey, t) ==
    LET store == loadStore(f)
        e == ensureDefaultProject(store[peerKey], defaultProjectName, t)
    IN IF store[peerKey] = NoPeer
       THEN Result(f, "Mode: Classic (Projects OFF)", <<>>, NoCopy)
       ELSE IF e.changed
       THEN Result(Written([store EXCEPT ![peerKey] = e.peer]),
                   IF e.peer.projectsEnabled = TRUE THEN "Mode: Projects ON"
                   ELSE "Mode: Classic (Projects OFF)",
                   <<"write">>, NoCopy)
       ELSE Result(f, IF e.peer.projectsEnabled = TRUE THEN "Mode: Projects ON"
                      ELSE "Mode: Classic (Projects OFF)",
                   <<>>, NoCopy)

\* ------------------------------------------------------------------------
\* /memory remember, /memory global remember
\* ------------------------------------------------------------------------

\* /memory remember <token>, token not empty
memoryRemember(f, peerKey, token, t) ==
    LET store == loadStore(f)
        peer == store[peerKey]
        e == ensureDefaultProject(peer, defaultProjectName, t)
        healed == IF e.changed THEN Written([store EXCEPT ![peerKey] = e.peer]) ELSE f
        selfHeal == IF e.changed THEN <<"write">> ELSE <<>>
        active == findById(e.peer.projects, e.peer.activeProjectId)
        tokens == TokensOf(e.peer.projects[active].tokens)
        saved == [e.peer EXCEPT !.projects[active].tokens =
                     IF includes(tokens, token) THEN tokens ELSE Append(tokens, token)]
    IN IF peer = NoPeer
       THEN Result(f, "No Projects state for this chat yet.", <<>>, NoCopy)
       ELSE IF e.peer.projectsEnabled # TRUE
       THEN Result(healed, "Projects are OFF (Classic).", selfHeal, NoCopy)
       ELSE IF active = 0
       THEN Result(healed, "No active project.", selfHeal, NoCopy)
       ELSE Result(Written([store EXCEPT ![peerKey] = saved]), "Saved in project",
                   selfHeal \o <<"write">>, NoCopy)

\* /memory list
memoryList(f, peerKey, t) ==
    LET store == loadStore(f)
        peer == store[peerKey]
        e == ensureDefaultProject(peer, defaultProjectName, t)
        healed == IF e.changed THEN Written([store EXCEPT ![peerKey] = e.peer]) ELSE f
        selfHeal == IF e.changed THEN <<"write">> ELSE <<>>
        active == findById(e.peer.projects, e.peer.activeProjectId)
        tokens == TokensOf(e.peer.projects[active].tokens)
    IN IF peer = NoPeer
       THEN Result(f, "No Projects state for this chat yet.", <<>>, NoCopy)
       ELSE IF e.peer.projectsEnabled # TRUE
       THEN Result(healed, "Projects are OFF (Classic).", selfHeal, NoCopy)
       ELSE IF active = 0
       THEN Result(healed, "No active project.", selfHeal, NoCopy)
       ELSE IF tokens = <<>>
       THEN Result(healed, "No tokens saved in project", selfHeal, NoCopy)
       ELSE [Result(healed, "Tokens in project", selfHeal, NoCopy) EXCEPT !.tokens = tokens]

\* /memory global remember <token>, token not empty
memoryGlobalRemember(f, peerKey, token, t) ==
    LET store == loadStore(f)
        peer == store[peerKey]
        e == ensureDefaultProject(peer, defaultProjectName, t)
        selfHeal == IF e.changed THEN <<"write">> ELSE <<>>
        tokens == TokensOf(e.peer.globalTokens)
        saved == [e.peer EXCEPT !.globalTokens =
                     IF includes(tokens, token) THEN tokens ELSE Append(tokens, token)]
    IN IF peer = NoPeer
       THEN Result(f, "No Projects state for this chat yet.", <<>>, NoCopy)
       ELSE Result(Written([store EXCEPT ![peerKey] = saved]), "Saved globally",
                   selfHeal \o <<"write">>, NoCopy)

\* ------------------------------------------------------------------------
\* /projects reset remove, /projects wipe ...
\* ------------------------------------------------------------------------

\* the PendingWipe literal of the two arming paths
newPending(kind, projectId, nonce, t) ==
    [kind |-> kind, nonce |-> nonce, createdAtMs |-> t, projectId |-> projectId,
     stamp |-> formatBackupStamp(t), backupDir |-> backupDirOf(formatBackupStamp(t))]

\* a reset remove that arms whatever the target is
resetRemoveUnchecked(f, peerKey, projectId, nonce, t) ==
    IF loadStore(f)[peerKey] = NoPeer
    THEN Result(f, "No Projects state yet for this DM.", <<>>, NoCopy)
    ELSE Result(Written([loadStore(f) EXCEPT
                            ![peerKey].pendingWipe = newPending("project", projectId, nonce, t)]),
                "This will wipe ONE project for this DM", <<"write">>, NoCopy)

\* /projects reset remove <projectId>: arms the wipe of one project
resetRemove(f, peerKey, projectId, nonce, t) ==
    LET store == loadStore(f)
        peer == store[peerKey]
        e == ensureDefaultProject(peer, defaultProjectName, t)
        healedStore == [store EXCEPT ![peerKey] = e.peer]
        healed == IF e.changed THEN Written(healedStore) ELSE f
        selfHeal == IF e.changed THEN <<"write">> ELSE <<>>
        project == findLiveById(e.peer.projects, projectId)
        armed == [e.peer EXCEPT !.pendingWipe = newPending("project", projectId, nonce, t)]
    IN IF peer = NoPeer
       THEN Result(f, "No Projects state yet for this DM.", <<>>, NoCopy)
       ELSE IF ~Truthy(projectId)
       THEN Result(healed, "Select a project to wipe", selfHeal, NoCopy)
       ELSE IF projectId = defaultProjectId
       THEN Result(healed, "Refused: default project cannot be wiped.", selfHeal, NoCopy)
       ELSE IF project = 0
       THEN Result(healed, "Refused: unknown projectId", selfHeal, NoCopy)
       ELSE Result(Written([healedStore EXCEPT ![peerKey] = armed]),
                   "This will wipe ONE project for this DM", selfHeal \o <<"write">>, NoCopy)

\* the peer the wipe sub-command works on
wipePeer(f, peerKey) ==
    IF loadStore(f)[peerKey] # NoPeer THEN loadStore(f)[peerKey] ELSE WipeFallbackPeer

\* a clearPending that leaves the pending wipe in place
keepPending(f, peerKey) == f

\* clearPending: drops the pending wipe and writes, only if there is one
clearPending(f, peerKey) ==
    IF wipePeer(f, peerKey).pendingWipe # NoPending
    THEN Written([loadStore(f) EXCEPT
                     ![peerKey] = [wipePeer(f, peerKey) EXCEPT !.pendingWipe = NoPending]])
    ELSE f

\* the file-system calls of clearPending
clearPendingIo(f, peerKey) ==
    IF wipePeer(f, peerKey).pendingWipe # NoPending THEN <<"write">> ELSE <<>>

\* an expiry test that never finds a pending wipe expired
isExpiredNever(pending, t) == FALSE

\* Date.now() - pending.createdAtMs > wipeConfirmTtlMs
isExpired(pending, t) == t - pending.createdAtMs > wipeConfirmTtlMs

\* a mismatch test that finds every confirm mismatched
mismatchAllAlways(pending, argNonce) == TRUE

\* a mismatch test that looks at the kind only, not at the nonce
mismatchAllKindOnly(pending, argNonce) == pending.kind # "all"

\* the mismatch test of /projects wipe confirm
mismatchAll(pending, argNonce) ==
    argNonce = "" \/ argNonce # pending.nonce \/ pending.kind # "all"

\* a mismatch test that does not compare the project id with the armed target
mismatchProjectAnyTarget(pending, argNonce, projectId) ==
    argNonce = "" \/ argNonce # pending.nonce \/ pending.kind # "project"

\* the mismatch test of /projects wipe project confirm
mismatchProject(pending, argNonce, projectId) ==
    \/ argNonce = ""
    \/ argNonce # pending.nonce
    \/ pending.kind # "project"
    \/ ~Truthy(pending.projectId)
    \/ pending.projectId # projectId

\* /projects wipe cancel
wipeCancel(f, peerKey) ==
    Result(clearPending(f, peerKey), "Cancelled. Nothing was deleted.",
           clearPendingIo(f, peerKey), NoCopy)

\* an arm that leaves a pending wipe it finds in place
wipeArmKeepFirst(f, peerKey, nonce, t) ==
    IF wipePeer(f, peerKey).pendingWipe # NoPending
    THEN Result(Written(loadStore(f)),
                "This will WIPE ALL Projects-UX state for this DM (recovery).",
                <<"write">>, NoCopy)
    ELSE Result(Written([loadStore(f) EXCEPT
                            ![peerKey] = [wipePeer(f, peerKey) EXCEPT
                                             !.pendingWipe = newPending("all", Undefined, nonce, t)]]),
                "This will WIPE ALL Projects-UX state for this DM (recovery).",
                <<"write">>, NoCopy)

\* /projects wipe (any other action): arms the wipe of everything
wipeArm(f, peerKey, nonce, t) ==
    Result(Written([loadStore(f) EXCEPT
                       ![peerKey] = [wipePeer(f, peerKey) EXCEPT
                                        !.pendingWipe = newPending("all", Undefined, nonce, t)]]),
           "This will WIPE ALL Projects-UX state for this DM (recovery).",
           <<"write">>, NoCopy)

\* ------------------------------------------------------------------------
\* Backup and wipe
\* ------------------------------------------------------------------------

\* fs.mkdir(backupDir) and fs.cp(projectsUxDir, backupTarget): a missing
\* plugin directory (ENOENT) leaves an empty backup target, any other failure
\* of the copy leaves the backup incomplete
backupCopy(dir, f, cp) ==
    IF ~f.exists THEN [dir |-> dir, complete |-> TRUE, content |-> NoFile]
    ELSE IF cp = "ok" THEN [dir |-> dir, complete |-> TRUE, content |-> f]
    ELSE [dir |-> dir, complete |-> FALSE, content |-> NoFile]

\* a fresh peer that stays in Projects mode
freshPeerProjectsOn(messageId) ==
    [version |-> 1, projectsEnabled |-> TRUE, activeProjectId |-> <<>>,
     projects |-> <<>>, previousProjectId |-> <<>>, lastProjectId |-> <<>>,
     pendingReset |-> FALSE, effectiveFromMessageId |-> messageId,
     globalTokens |-> <<>>, pendingWipe |-> NoPending]

\* the freshPeer literal of wipeProjectsUxForPeer
freshPeer(messageId) ==
    [version |-> 1, projectsEnabled |-> FALSE, activeProjectId |-> <<>>,
     projects |-> <<>>, previousProjectId |-> <<>>, lastProjectId |-> <<>>,
     pendingReset |-> FALSE, effectiveFromMessageId |-> messageId,
     globalTokens |-> <<>>, pendingWipe |-> NoPending]

\* wipeProjectsUxForPeer: state.json after the peer is replaced by a fresh
\* one with its default project
wipeProjectsUxForPeer(f, peerKey, messageId, t) ==
    Written([loadStore(f) EXCEPT
                ![peerKey] = ensureDefaultProject(freshPeer(messageId),
                                                  defaultProjectName, t).peer])

\* what the copy-back leaves in the recreated plugin directory: a failure is
\* swallowed and leaves it without state.json
copiedBack(f, cb) == IF f.exists /\ cb = "ok" THEN f ELSE NoFile

\* a reset that goes on when its backup copy is incomplete
backupAndResetUnchecked(f, peerKey, pending, messageId, t, cp, rn, cb) ==
    Result(wipeProjectsUxForPeer(copiedBack(f, cb), peerKey, messageId, t),
           "WIPED ALL projects state for this DM.",
           <<"mkdir-backup", "cp-backup", "rename", "mkdir", "cp-back", "write", "rm">>,
           backupCopy(pending.backupDir, f, cp))

\* backupAndResetProjectsUx; cp, rn and cb are the outcomes of the backup
\* copy, the rename and the copy-back
backupAndResetProjectsUx(f, peerKey, pending, messageId, t, cp, rn, cb) ==
    LET copy == backupCopy(pending.backupDir, f, cp)
    IN IF ~copy.complete
       THEN Result(f, "(thrown)", <<"mkdir-backup", "cp-backup">>, copy)
       ELSE IF f.exists /\ rn = "fail"
       THEN Result(f, "(thrown)", <<"mkdir-backup", "cp-backup", "rename">>, copy)
       ELSE Result(wipeProjectsUxForPeer(copiedBack(f, cb), peerKey, messageId, t),
                   "WIPED ALL projects state for this DM.",
                   <<"mkdir-backup", "cp-backup", "rename", "mkdir", "cp-back", "write", "rm">>,
                   copy)

\* a removal that also drops the peer's global tokens
removeProjectAndGlobalTokens(peer, projectId, messageId) ==
    [peer EXCEPT !.projects = SelectSeq(peer.projects, LAMBDA q : q.id # projectId),
                 !.globalTokens = <<>>]

\* the removal and re-pointing of backupAndWipeOneProject, on the peer after
\* its self-healing
removeProject(peer, projectId, messageId) ==
    LET filtered == [peer EXCEPT !.projects =
                        SelectSeq(peer.projects, LAMBDA q : q.id # projectId)]
        repointed ==
            IF \/ peer.activeProjectId = projectId
               \/ peer.previousProjectId = projectId
               \/ peer.lastProjectId = projectId
            THEN [filtered EXCEPT !.activeProjectId = defaultProjectId,
                                  !.previousProjectId = Undefined,
                                  !.lastProjectId = defaultProjectId,
                                  !.pendingReset = TRUE]
            ELSE filtered
    IN IF messageId # NoNumber
       THEN [repointed EXCEPT !.effectiveFromMessageId = messageId]
       ELSE repointed

\* backupAndWipeOneProject; cp is the outcome of the backup copy
backupAndWipeOneProject(f, peerKey, pending, projectId, messageId, t, cp) ==
    LET copy == backupCopy(pending.backupDir, f, cp)
        calls == <<"mkdir-backup", "cp-backup">>
        store == loadStore(f)
        peer == store[peerKey]
        e == ensureDefaultProject([peer EXCEPT !.pendingWipe = NoPending],
                                  defaultProjectName, t).peer
        target == findLiveById(e.projects, projectId)
        wiped == ensureDefaultProject(removeProject(e, projectId, messageId),
                                      defaultProjectName, t).peer
    IN IF ~copy.complete THEN Result(f, "Backup failed; aborting wipe.", calls, copy)
       ELSE IF peer = NoPeer THEN Result(f, "Refused: no peer state.", calls, copy)
       ELSE IF projectId = defaultProjectId
       THEN Result(f, "Refused: default project cannot be wiped.", calls, copy)
       ELSE IF target = 0 THEN Result(f, "Refused: unknown projectId", calls, copy)
       ELSE Result(Written([store EXCEPT ![peerKey] = wiped]), "WIPED project",
                   calls \o <<"write">>, copy)

\* a result with the calls of an earlier step of the same handler put first
Following(calls, r) == [r EXCEPT !.io = calls \o r.io]

\* /projects wipe confirm <nonce>
wipeConfirm(f, peerKey, argNonce, messageId, t, cp, rn, cb) ==
    LET pending == wipePeer(f, peerKey).pendingWipe
        cleared == clearPending(f, peerKey)
        calls == clearPendingIo(f, peerKey)
    IN IF pending = NoPending THEN Result(f, "No wipe pending.", <<>>, NoCopy)
       ELSE IF isExpired(pending, t)
       THEN Result(cleared, "Refused: nonce expired.", calls, NoCopy)
       ELSE IF mismatchAll(pending, argNonce)
       THEN Result(cleared, "Refused: nonce mismatch or wrong scope.", calls, NoCopy)
       ELSE Following(calls, backupAndResetProjectsUx(cleared, peerKey, pending, messageId,
                                                  t, cp, rn, cb))

\* /projects wipe project confirm <nonce> <id>
wipeProjectConfirm(f, peerKey, argNonce, projectId, messageId, t, cp) ==
    LET pending == wipePeer(f, peerKey).pendingWipe
        cleared == clearPending(f, peerKey)
        calls == clearPendingIo(f, peerKey)
    IN IF pending = NoPending THEN Result(f, "No wipe pending.", <<>>, NoCopy)
       ELSE IF isExpired(pending, t)
       THEN Result(cleared, "Refused: nonce expired.", calls, NoCopy)
       ELSE IF mismatchProject(pending, argNonce, projectId)
       THEN Result(cleared, "Refused: nonce mismatch or wrong projectId.", calls, NoCopy)
       ELSE Following(calls, backupAndWipeOneProject(cleared, peerKey, pending, projectId,
                                                 messageId, t, cp))

\* ------------------------------------------------------------------------
\* State
\* ------------------------------------------------------------------------

\* file    state.json of the plugin directory
\* now     Date.now()
\* req     the command handled by the last step
\* reply   the text it returned
\* io      its file-system calls, in order
\* copied  the backup copy it made
\* found   the pending wipe it found on its peer when it started
\* shown   the tokens its text listed; the prependContext of the hook in
\*         SpecPreface
\* earlier the nonces of the pending wipes that a later arm replaced, as the
\*         commands of SpecArm record them
\* selected, stored
\*         the place in the peer's collection of the project that the user
\*         made active last, and the pairs <<place, token>> of the tokens
\*         remembered while the project at that place was the one made
\*         active, as the commands of SpecLife record them
\*         (in SpecMemory `stored` is the sequence of the saved <<scope, token>>)
\* disk, writers
\*         the directory of state.json byte by byte, and the calls of
\*         writeJsonAtomic in flight, as the steps of SpecWrite move them
\* input, output
\*         the arguments drawn for a function of the program, and what the
\*         function returned for them
\* cachedStore, cachedStoreLoadedAtMs, cachedStoreMtimeMs
\*         the in-memory store cache of the plugin
\* mtimeMs the modification time of state.json
\* seen    the store that loadStoreCached returned to the hook of the last step
\* owed    whether a command has selected a project since the last pre-turn
\*         hook that ran with projects enabled, as the steps of SpecHook
\*         record it
\* beforeOff
\*         the activeProjectId that state.json held for the peer when its
\*         last /projects off arrived, as the steps of SpecToggle record it
\* tasks, projectsUxDir
\*         the handlers in flight with the place each has reached, and
\*         whether the plugin directory exists, as the steps of SpecTasks
\*         move them
VARIABLES file, now, req, reply, io, copied, found, shown, earlier, selected, stored,
          disk, writers, input, output,
          cachedStore, cachedStoreLoadedAtMs, cachedStoreMtimeMs, mtimeMs, seen, owed,
          beforeOff, tasks, projectsUxDir

vars == <<file, now, req, reply, io, copied, found, shown, earlier, selected, stored,
          disk, writers, input, output,
          cachedStore, cachedStoreLoadedAtMs, cachedStoreMtimeMs, mtimeMs, seen, owed,
          beforeOff, tasks, projectsUxDir>>

\* the variables that the command handlers leave alone, and those that the
\* steps of a write leave alone
pure == <<input, output>>
steps == <<tasks, projectsUxDir>>
cached == <<cachedStore, cachedStoreLoadedAtMs, cachedStoreMtimeMs, mtimeMs, seen, owed>>
aside == <<pure, cached, beforeOff, steps>>
apart == <<disk, writers, aside>>
handled == <<file, req, reply, io, copied, found, shown, earlier, selected, stored, aside>>

\* a command as the handler receives it: sub-command, peer key, project id
\* argument, nonce argument and ctx.messageId
Request(cmd, peerKey, projectId, argNonce, messageId) ==
    [cmd |-> cmd, peer |-> peerKey, projectId |-> projectId, nonce |-> argNonce,
     messageId |-> messageId, arg |-> Undefined]

NoRequest == Request("none", "", Undefined, "", NoNumber)

\* ------------------------------------------------------------------------
\* writeJsonAtomic, step by step
\* ------------------------------------------------------------------------

\* the wall clock of SpecWrite stops at MaxWriteClock milliseconds
MaxWriteClock == 1

\* the number of write() calls fs.writeFile needs for a document
Chunks == 2

\* the callers of writeJsonAtomic in flight in the process, and the document
\* each one passes; document 0 is the one state.json holds at the start
Writers == {1, 2}
PriorDoc == 0

\* a complete document: each of its chunks
Complete(d) == [k \in 1..Chunks |-> d]

\* a hole of a file: bytes that no write() has filled
Hole == -1

\* the directory: the inode of state.json, the inode of the temporary file
\* `${filePath}.tmp.${process.pid}.${Date.now()}` of each clock reading (0
\* when there is no such file), and the content of every inode
DiskWith(prior) ==
    [state |-> IF prior THEN 1 ELSE 0,
     tmp |-> [t \in 0..MaxWriteClock |-> 0],
     ino |-> IF prior THEN <<Complete(PriorDoc)>> ELSE <<>>]

WriterIdle == [pc |-> "idle", tmp |-> NoNumber, fd |-> 0, written |-> 0]

\* cachedStore = null
NoCache == [cached |-> FALSE, peers |-> <<>>]

\* cachedStore = store
Cached(store) == [cached |-> TRUE, peers |-> store]

\* no handler is in flight, and the plugin directory exists
StepsIdle ==
    /\ tasks = <<>>
    /\ projectsUxDir = TRUE

CacheEmpty ==
    /\ cachedStore = NoCache
    /\ cachedStoreLoadedAtMs = 0
    /\ cachedStoreMtimeMs = 0
    /\ mtimeMs = 0
    /\ seen = NoCache
    /\ owed = FALSE

AsideIdle ==
    /\ input = <<>>
    /\ output = <<>>
    /\ CacheEmpty
    /\ beforeOff = <<>>
    /\ StepsIdle

ApartIdle ==
    /\ disk = DiskWith(FALSE)
    /\ writers = [w \in Writers |-> WriterIdle]
    /\ AsideIdle

\* a write() of chunk k of document d into a file of content c, at the
\* position of the descriptor
writeChunk(c, k, d) ==
    [i \in 1..(IF Len(c) > k THEN Len(c) ELSE k) |->
        IF i = k THEN d ELSE IF i <= Len(c) THEN c[i] ELSE Hole]

\* await ensureDir(filePath); const tmp = `${filePath}.tmp.${pid}.${Date.now()}`
WName(w) ==
    /\ writers[w].pc = "idle"
    /\ writers' = [writers EXCEPT ![w].pc = "named", ![w].tmp = now]
    /\ UNCHANGED <<disk, now, handled>>

\* fs.writeFile(tmp, ...) opens tmp with flag "w": the file is created, or
\* truncated when there is one of that name
WOpen(w) ==
    /\ writers[w].pc = "named"
    /\ IF disk.tmp[writers[w].tmp] # 0
       THEN /\ disk' = [disk EXCEPT !.ino[disk.tmp[writers[w].tmp]] = <<>>]
            /\ writers' = [writers EXCEPT ![w].pc = "open",
                                          ![w].fd = disk.tmp[writers[w].tmp]]
       ELSE /\ disk' = [disk EXCEPT !.ino = Append(disk.ino, <<>>),
                                    !.tmp[writers[w].tmp] = Len(disk.ino) + 1]
            /\ writers' = [writers EXCEPT ![w].pc = "open", ![w].fd = Len(disk.ino) + 1]
    /\ UNCHANGED <<now, handled>>

\* fs.writeFile writes the next chunk through its descriptor
WWrite(w) ==
    /\ writers[w].pc = "open"
    /\ writers[w].written < Chunks
    /\ disk' = [disk EXCEPT !.ino[writers[w].fd] =
                    writeChunk(disk.ino[writers[w].fd], writers[w].written + 1, w)]
    /\ writers' = [writers EXCEPT ![w].written = writers[w].written + 1]
    /\ UNCHANGED <<now, handled>>

\* fs.writeFile closes the descriptor and resolves
WClose(w) ==
    /\ writers[w].pc = "open"
    /\ writers[w].written = Chunks
    /\ writers' = [writers EXCEPT ![w].pc = "closed"]
    /\ UNCHANGED <<disk, now, handled>>

\* fs.rename(tmp, filePath): ENOENT when tmp is gone
WRename(w) ==
    /\ writers[w].pc = "closed"
    /\ IF disk.tmp[writers[w].tmp] = 0
       THEN /\ writers' = [writers EXCEPT ![w].pc = "failed"]
            /\ UNCHANGED disk
       ELSE /\ disk' = [disk EXCEPT !.state = disk.tmp[writers[w].tmp],
                                    !.tmp[writers[w].tmp] = 0]
            /\ writers' = [writers EXCEPT ![w].pc = "done"]
    /\ UNCHANGED <<now, handled>>

\* the process dies, whatever its writes in flight have reached
WCrash ==
    /\ \E w \in Writers : writers[w].pc \notin {"done", "failed", "crashed"}
    /\ writers' = [w \in Writers |->
                      IF writers[w].pc \in {"done", "failed"} THEN writers[w]
                      ELSE [writers[w] EXCEPT !.pc = "crashed"]]
    /\ UNCHANGED <<disk, now, handled>>

WTick ==
    /\ now < MaxWriteClock
    /\ now' = now + 1
    /\ UNCHANGED <<disk, writers, handled>>

InitWrite ==
    /\ file = NoFile
    /\ now = 0
    /\ req = NoRequest
    /\ reply = ""
    /\ io = <<>>
    /\ copied = NoCopy
    /\ found = NoPending
    /\ shown = <<>>
    /\ earlier = {}
    /\ selected = 0
    /\ stored = {}
    /\ disk \in {DiskWith(FALSE), DiskWith(TRUE)}
    /\ writers = [w \in Writers |-> WriterIdle]
    /\ AsideIdle

NextWrite ==
    \/ \E w \in Writers : WName(w)
    \/ \E w \in Writers : WOpen(w)
    \/ \E w \in Writers : WWrite(w)
    \/ \E w \in Writers : WClose(w)
    \/ \E w \in Writers : WRename(w)
    \/ WCrash
    \/ WTick

SpecWrite == InitWrite /\ [][NextWrite]_vars

\* stores the lifecycle and memory commands build from an empty plugin directory
StoreOnAndNew ==
    projectsNew(projectsOn(NoFile, Peer2, 7, 0).file, Peer1, Name2, 7, <<"a">>, 0).file

StoreWithTokens ==
    projectsSwitch(
        memoryRemember(
            projectsNew(
                memoryGlobalRemember(
                    memoryRemember(StoreOnAndNew, Peer1, "t1", 0).file,
                    Peer1, "t1", 0).file,
                Peer1, Name3, NoNumber, <<"a">>, 0).file,
            Peer1, "t1", 0).file,
        Peer1, Name2, 7, 0).file

StoreOff == projectsOff(StoreWithTokens, Peer1, NoNumber, 0).file

InitialStores == {NoFile, StoreOnAndNew, StoreWithTokens, StoreOff}

Init ==
    /\ file \in InitialStores
    /\ now = 0
    /\ req = NoRequest
    /\ reply = ""
    /\ io = <<>>
    /\ copied = NoCopy
    /\ found = NoPending
    /\ shown = <<>>
    /\ earlier = {}
    /\ selected = 0
    /\ stored = {}
    /\ ApartIdle

\* the handler of request r ran and left res
Handled(r, res) ==
    /\ file' = res.file
    /\ reply' = res.reply
    /\ io' = res.io
    /\ copied' = res.copied
    /\ req' = r
    /\ found' = loadStore(file)[r.peer].pendingWipe
    /\ shown' = res.tokens
    /\ UNCHANGED <<now, apart>>

\* the same for a specification that follows the store cache
HandledCached(r, res) ==
    /\ file' = res.file
    /\ reply' = res.reply
    /\ io' = res.io
    /\ copied' = res.copied
    /\ req' = r
    /\ found' = loadStore(file)[r.peer].pendingWipe
    /\ shown' = res.tokens
    /\ UNCHANGED <<now, earlier, selected, stored, disk, writers, pure>>

Handle(r, res) == Handled(r, res) /\ UNCHANGED <<earlier, selected, stored>>

\* time passes between two commands
Tick ==
    \E d \in ClockSteps :
        /\ now + d <= MaxClock
        /\ now' = now + d
        /\ req' = NoRequest
        /\ reply' = ""
        /\ io' = <<>>
        /\ copied' = NoCopy
        /\ found' = NoPending
        /\ shown' = <<>>
        /\ UNCHANGED <<file, earlier, selected, stored, apart>>

\* project ids a command may name: those slugifyId gives the names, and the
\* default project's
ProjectIdArgs == {Str_proj \o slugifyId(n) : n \in Names \cup {defaultProjectName}}

\* nonce arguments: the generated ones, one never generated, and a missing one
NonceArgs == Nonces \cup {"ff", ""}

CmdResetRemove ==
    \E p \in Users, id \in ProjectIdArgs, n \in Nonces :
        Handle(Request("reset remove", p, id, "", NoNumber),
               resetRemove(file, p, id, n, now))

CmdWipeArm ==
    \E p \in Users, n \in Nonces :
        Handle(Request("wipe", p, Undefined, "", NoNumber), wipeArm(file, p, n, now))

CmdWipeCancel ==
    \E p \in Users :
        Handle(Request("wipe cancel", p, Undefined, "", NoNumber), wipeCancel(file, p))

CmdWipeConfirm ==
    \E p \in Users, n \in NonceArgs, m \in MessageIds, o \in IoRuns :
        Handle(Request("wipe confirm", p, Undefined, n, m),
               wipeConfirm(file, p, n, m, now, o[1], o[2], o[3]))

CmdWipeProjectConfirm ==
    \E p \in Users, n \in NonceArgs, id \in ProjectIdArgs, m \in MessageIds,
       cp \in IoOutcomes :
        Handle(Request("wipe project confirm", p, id, n, m),
               wipeProjectConfirm(file, p, n, id, m, now, cp))

Next ==
    \/ Tick
    \/ CmdResetRemove
    \/ CmdWipeArm
    \/ CmdWipeCancel
    \/ CmdWipeConfirm
    \/ CmdWipeProjectConfirm

Spec == Init /\ [][Next]_vars

\* ------------------------------------------------------------------------
\* Arming again: the wipe commands with two values of randomNonce
\* ------------------------------------------------------------------------

\* two values of crypto.randomBytes(4).toString("hex")
ArmNonces == {"0a", "0b"}

\* the handler of an arming request ran: when it put a pending wipe in the
\* place of another one, the nonce of the replaced one is recorded
HandleArm(r, res) ==
    /\ Handled(r, res)
    /\ earlier' =
          IF /\ loadStore(file)[r.peer].pendingWipe # NoPending
             /\ loadStore(res.file)[r.peer].pendingWipe # NoPending
             /\ loadStore(res.file)[r.peer].pendingWipe # loadStore(file)[r.peer].pendingWipe
          THEN earlier \cup {loadStore(file)[r.peer].pendingWipe.nonce}
          ELSE earlier
    /\ UNCHANGED <<selected, stored>>

ArmResetRemove ==
    \E p \in Users, id \in ProjectIdArgs, n \in ArmNonces :
        HandleArm(Request("reset remove", p, id, "", NoNumber),
                  resetRemove(file, p, id, n, now))

ArmWipe ==
    \E p \in Users, n \in ArmNonces :
        HandleArm(Request("wipe", p, Undefined, "", NoNumber), wipeArm(file, p, n, now))

ArmWipeConfirm ==
    \E p \in Users, n \in ArmNonces :
        Handle(Request("wipe confirm", p, Undefined, n, NoNumber),
               wipeConfirm(file, p, n, NoNumber, now, "ok", "ok", "ok"))

ArmWipeProjectConfirm ==
    \E p \in Users, n \in ArmNonces, id \in ProjectIdArgs :
        Handle(Request("wipe project confirm", p, id, n, NoNumber),
               wipeProjectConfirm(file, p, n, id, NoNumber, now, "ok"))

InitArm ==
    /\ file \in {NoFile, StoreOnAndNew}
    /\ now = 0
    /\ req = NoRequest
    /\ reply = ""
    /\ io = <<>>
    /\ copied = NoCopy
    /\ found = NoPending
    /\ shown = <<>>
    /\ earlier = {}
    /\ selected = 0
    /\ stored = {}
    /\ ApartIdle

NextArm ==
    \/ Tick
    \/ ArmResetRemove
    \/ ArmWipe
    \/ ArmWipeConfirm
    \/ ArmWipeProjectConfirm

SpecArm == InitArm /\ [][NextArm]_vars

\* ------------------------------------------------------------------------
\* The lifecycle and memory commands of one peer, from an empty plugin
\* directory.  None of them reads a time stamp, and the clock stands still.
\* ------------------------------------------------------------------------

\* names given to /projects new: "a" and "A" differ by case only, "a" and "a-"
\* are distinct names with the same slug, and "General!" has the slug of the
\* default project's name
NameA == <<"a">>
NameUpperA == <<"A">>
NameADash == <<"a", "-">>
NameGeneralBang == defaultProjectName \o <<"!">>
LifeNames == {NameA, NameUpperA, NameADash, NameGeneralBang}

\* arguments of /projects switch: a name, an id, and the name of no project
SwitchKeys == {NameADash, Str_proj \o NameA, <<"z">>}

\* tokens given to /memory remember
Tokens == {"t1"}

\* a command with one argument: a name, a key or a token
ArgRequest(cmd, peerKey, arg) ==
    [Request(cmd, peerKey, Undefined, "", NoNumber) EXCEPT !.arg = arg]

\* the place of the project that request r made active: the one its reply
\* names for new and switch, and the active one of the peer that a first
\* command created
selectedBy(r, res, was) ==
    LET peer == loadStore(res.file)[r.peer]
    IN IF res.reply = "Switched to existing project"
       THEN findLiveByName(peer.projects, r.arg)
       ELSE IF res.reply = "Created and switched to project"
       THEN Len(peer.projects)
       ELSE IF res.reply = "Switched to project"
       THEN findProject(peer, r.arg)
       ELSE IF was = 0 /\ peer # NoPeer /\ Truthy(peer.activeProjectId)
       THEN findById(peer.projects, peer.activeProjectId)
       ELSE was

HandleLife(r, res) ==
    /\ Handled(r, res)
    /\ selected' = selectedBy(r, res, selected)
    /\ stored' = IF res.reply = "Saved in project"
                 THEN stored \cup {<<selectedBy(r, res, selected), r.arg>>}
                 ELSE stored
    /\ UNCHANGED earlier

CmdNew ==
    \E p \in Users, name \in LifeNames :
        HandleLife(ArgRequest("new", p, name),
                   projectsNew(file, p, name, NoNumber, <<"a">>, now))

CmdSwitch ==
    \E p \in Users, key \in SwitchKeys :
        HandleLife(ArgRequest("switch", p, key), projectsSwitch(file, p, key, NoNumber, now))

CmdOff ==
    \E p \in Users :
        HandleLife(ArgRequest("off", p, Undefined), projectsOff(file, p, NoNumber, now))

CmdMemoryRemember ==
    \E p \in Users, token \in Tokens :
        HandleLife(ArgRequest("memory remember", p, token),
                   memoryRemember(file, p, token, now))

CmdMemoryList ==
    \E p \in Users :
        HandleLife(ArgRequest("memory list", p, Undefined), memoryList(file, p, now))

InitLife ==
    /\ file = NoFile
    /\ now = 0
    /\ req = NoRequest
    /\ reply = ""
    /\ io = <<>>
    /\ copied = NoCopy
    /\ found = NoPending
    /\ shown = <<>>
    /\ earlier = {}
    /\ selected = 0
    /\ stored = {}
    /\ ApartIdle

NextLife ==
    \/ CmdNew
    \/ CmdSwitch
    \/ CmdOff
    \/ CmdMemoryRemember
    \/ CmdMemoryList

SpecLife == InitLife /\ [][NextLife]_vars

\* ------------------------------------------------------------------------
\* The wipe commands on a store that an older version left
\* ------------------------------------------------------------------------

\* state.json of an older version: the peer's default project is "Inbox", of
\* id "proj-inbox", and it is the active one
LegacyInbox ==
    Written([EmptyPeers EXCEPT ![Peer1] =
        [NewPeer EXCEPT
            !.projectsEnabled = TRUE,
            !.projects = <<[id |-> Str_projinbox, name |-> <<"I", "n", "b", "o", "x">>,
                            archived |-> FALSE, createdAt |-> 0, lastUsedAt |-> 0,
                            note |-> Undefined, tokens |-> Undefined]>>,
            !.activeProjectId = Str_projinbox,
            !.lastProjectId = Str_projinbox]])

\* the same store after /projects new p2 and /projects switch proj-inbox
LegacyWithTwo ==
    projectsSwitch(projectsNew(LegacyInbox, Peer1, Name2, NoNumber, <<"a">>, 0).file,
                   Peer1, Str_projinbox, NoNumber, 0).file

\* project ids a command may name in such a store
LegacyIdArgs == {Str_projinbox, Str_proj \o slugifyId(Name2)}

LegacyResetRemove ==
    \E p \in Users, id \in LegacyIdArgs, n \in Nonces :
        Handle(Request("reset remove", p, id, "", NoNumber),
               resetRemove(file, p, id, n, now))

LegacyWipeProjectConfirm ==
    \E p \in Users, n \in Nonces, id \in LegacyIdArgs, cp \in IoOutcomes :
        Handle(Request("wipe project confirm", p, id, n, NoNumber),
               wipeProjectConfirm(file, p, n, id, NoNumber, now, cp))

InitLegacy ==
    /\ file \in {LegacyInbox, LegacyWithTwo}
    /\ now = 0
    /\ req = NoRequest
    /\ reply = ""
    /\ io = <<>>
    /\ copied = NoCopy
    /\ found = NoPending
    /\ shown = <<>>
    /\ earlier = {}
    /\ selected = 0
    /\ stored = {}
    /\ ApartIdle

NextLegacy ==
    \/ Tick
    \/ LegacyResetRemove
    \/ LegacyWipeProjectConfirm
    \/ CmdWipeArm
    \/ CmdWipeCancel
    \/ CmdWipeConfirm

SpecLegacy == InitLegacy /\ [][NextLegacy]_vars

\* ------------------------------------------------------------------------
\* ensureDefaultProject on the PeerState values state.json may hold
\* ------------------------------------------------------------------------

\* Project values: two names, archived or not, with and without a tokens array
StoredProjects ==
    {[id |-> Str_proj \o slugifyId(n), name |-> n, archived |-> a, createdAt |-> 0,
      lastUsedAt |-> 0, note |-> Undefined, tokens |-> tk] :
        n \in {defaultProjectName, NameA}, a \in BOOLEAN, tk \in {Undefined, <<>>}}

\* PeerState values: no project, one or two; activeProjectId empty, the id of
\* either project, or the id of none
PeerStates ==
    {[NewPeer EXCEPT !.projects = ps, !.activeProjectId = a] :
        ps \in {<<>>} \cup {<<x>> : x \in StoredProjects}
                \cup {<<x, y>> : x \in StoredProjects, y \in StoredProjects},
        a \in {<<>>} \cup {Str_proj \o slugifyId(n) : n \in {defaultProjectName, NameA, <<"z">>}}}

CmdList ==
    \E p \in Users :
        Handle(ArgRequest("list", p, Undefined), projectsList(file, p, now))

InitEnsure ==
    /\ file \in {Written([EmptyPeers EXCEPT ![Peer1] = ps]) : ps \in PeerStates}
    /\ now = 0
    /\ req = NoRequest
    /\ reply = ""
    /\ io = <<>>
    /\ copied = NoCopy
    /\ found = NoPending
    /\ shown = <<>>
    /\ earlier = {}
    /\ selected = 0
    /\ stored = {}
    /\ ApartIdle

NextEnsure == CmdList

SpecEnsure == InitEnsure /\ [][NextEnsure]_vars

\* ------------------------------------------------------------------------
\* Commands whose store write fails.  writeJsonAtomic rejects when writeFile
\* or rename rejects; state.json is then as the earlier writes left it.  No
\* handler awaits a store write inside a try block, so the rejection leaves
\* the handler before its return statement.
\* ------------------------------------------------------------------------

\* the number of store writes among the calls of a handler
writesOf(calls) == Cardinality({i \in DOMAIN calls : calls[i] = "write"})

\* the place of the k-th store write among the calls of a handler
kthWrite(calls, k) ==
    CHOOSE i \in DOMAIN calls :
        calls[i] = "write" /\ Cardinality({j \in 1..i : calls[j] = "write"}) = k

\* a failed write that the handler catches and ignores: it goes on to its
\* return statement
writeFailsSwallowed(res, k, before) ==
    [res EXCEPT !.file = before,
                !.io = SubSeq(res.io, 1, kthWrite(res.io, k) - 1) \o <<"write-failed">>]

\* the run of a handler whose k-th store write rejects, res being its run
\* when every write succeeds and before the file as its earlier writes left it
writeFails(res, k, before) ==
    [file |-> before, reply |-> "(thrown)",
     io |-> SubSeq(res.io, 1, kthWrite(res.io, k) - 1) \o <<"write-failed">>,
     copied |-> res.copied, tokens |-> <<>>]

\* the run of a handler with k = 0 for no failure, else its k-th write failing;
\* first is the file before the first write, second before the second
Outcome(res, k, first, second) ==
    IF k = 0 THEN res ELSE writeFails(res, k, IF k = 1 THEN first ELSE second)

\* the outcomes a handler with these calls can have
Failures(calls) == 0..writesOf(calls)

\* the file after the self-heal write of the memory and reset handlers
healedFile(f, peerKey, t) ==
    LET store == loadStore(f)
        e == ensureDefaultProject(store[peerKey], defaultProjectName, t)
    IN IF store[peerKey] # NoPeer /\ e.changed
       THEN Written([store EXCEPT ![peerKey] = e.peer])
       ELSE f

FailOn ==
    \E p \in Users : \E k \in Failures(projectsOn(file, p, NoNumber, now).io) :
        Handle(ArgRequest("on", p, Undefined),
               Outcome(projectsOn(file, p, NoNumber, now), k, file, file))

FailOff ==
    \E p \in Users : \E k \in Failures(projectsOff(file, p, NoNumber, now).io) :
        Handle(ArgRequest("off", p, Undefined),
               Outcome(projectsOff(file, p, NoNumber, now), k, file, file))

FailNew ==
    \E p \in Users : \E k \in Failures(projectsNew(file, p, NameA, NoNumber, <<"a">>, now).io) :
        Handle(ArgRequest("new", p, NameA),
               Outcome(projectsNew(file, p, NameA, NoNumber, <<"a">>, now), k, file, file))

FailSwitch ==
    \E p \in Users, key \in {Str_proj \o NameA, Str_proj \o slugifyId(defaultProjectName)} :
      \E k \in Failures(projectsSwitch(file, p, key, NoNumber, now).io) :
        Handle(ArgRequest("switch", p, key),
               Outcome(projectsSwitch(file, p, key, NoNumber, now), k, file, file))

FailMemoryRemember ==
    \E p \in Users, token \in Tokens : \E k \in Failures(memoryRemember(file, p, token, now).io) :
        Handle(ArgRequest("memory remember", p, token),
               Outcome(memoryRemember(file, p, token, now), k, file, healedFile(file, p, now)))

FailWipeArm ==
    \E p \in Users, nonce \in Nonces : \E k \in Failures(wipeArm(file, p, nonce, now).io) :
        Handle(Request("wipe", p, Undefined, "", NoNumber),
               Outcome(wipeArm(file, p, nonce, now), k, file, file))

FailWipeCancel ==
    \E p \in Users : \E k \in Failures(wipeCancel(file, p).io) :
        Handle(Request("wipe cancel", p, Undefined, "", NoNumber),
               Outcome(wipeCancel(file, p), k, file, file))

FailWipeConfirm ==
    \E p \in Users, n \in Nonces :
      \E k \in Failures(wipeConfirm(file, p, n, NoNumber, now, "ok", "ok", "ok").io) :
        Handle(Request("wipe confirm", p, Undefined, n, NoNumber),
               Outcome(wipeConfirm(file, p, n, NoNumber, now, "ok", "ok", "ok"), k,
                       file, clearPending(file, p)))

InitFail ==
    /\ file \in InitialStores
    /\ now = 0
    /\ req = NoRequest
    /\ reply = ""
    /\ io = <<>>
    /\ copied = NoCopy
    /\ found = NoPending
    /\ shown = <<>>
    /\ earlier = {}
    /\ selected = 0
    /\ stored = {}
    /\ ApartIdle

NextFail ==
    \/ FailOn
    \/ FailOff
    \/ FailNew
    \/ FailSwitch
    \/ FailMemoryRemember
    \/ FailWipeArm
    \/ FailWipeCancel
    \/ FailWipeConfirm

SpecFail == InitFail /\ [][NextFail]_vars

\* ------------------------------------------------------------------------
\* readJson and loadStore on what state.json may contain.  A JavaScript
\* value is [type, num, str, keys]; a parsed text is the value at its top
\* with the values of its properties version and peers (undefined where the
\* top has no such property).
\* ------------------------------------------------------------------------

JsValue(type, num, str, keys) == [type |-> type, num |-> num, str |-> str, keys |-> keys]

JsUndefined == JsValue("undefined", 0, "", {})

JsNull == JsValue("null", 0, "", {})

JsFalse == JsValue("boolean", 0, "", {})

JsTrue == JsValue("boolean", 1, "", {})

JsNumber(n) == JsValue("number", n, "", {})

JsString(str) == JsValue("string", 0, str, {})

JsArray == JsValue("array", 0, "", {})

JsObject(keys) == JsValue("object", 0, "", keys)

\* what JSON.parse returns for a text whose top is not an object
Plain(top) == [top |-> top, version |-> JsUndefined, peers |-> JsUndefined]

\* what JSON.parse returns for the text of an object
Document(version, peers) == [top |-> JsObject({}), version |-> version, peers |-> peers]

\* the values of the property version, and of the property peers
Versions == {JsUndefined, JsNull, JsTrue, JsNumber(1), JsNumber(2), JsString("1")}

PeersValues ==
    {JsUndefined, JsNull, JsFalse, JsNumber(0), JsString(""), JsString("x"), JsArray,
     JsObject({}), JsObject({Peer1})}

\* state.json: no such file, a file that cannot be read, a text that is not
\* JSON, or the text of a JSON value
Contents ==
    {[kind |-> k, data |-> Plain(JsNull)] : k \in {"missing", "unreadable", "garbage"}}
    \cup {[kind |-> "json", data |-> Plain(top)] :
             top \in {JsNull, JsFalse, JsTrue, JsNumber(0), JsNumber(5), JsString(""),
                      JsString("x"), JsArray}}
    \cup {[kind |-> "json", data |-> Document(v, p)] : v \in Versions, p \in PeersValues}

\* ToBoolean
truthy(v) ==
    CASE v.type \in {"undefined", "null"} -> FALSE
      [] v.type = "boolean" -> v.num = 1
      [] v.type = "number" -> v.num # 0
      [] v.type = "string" -> v.str # ""
      [] OTHER -> TRUE

\* typeof
typeOf(v) == IF v.type \in {"null", "array"} THEN "object" ELSE v.type

\* what a call returns: a value, or the error it raised
Returned(v) == [raised |-> FALSE, value |-> v]

Raised == [raised |-> TRUE, value |-> Plain(JsUndefined)]

\* readJson without its catch clause
readJsonUncaught(content) ==
    IF content.kind = "json" THEN Returned(content.data) ELSE Raised

\* readJson: readFile and JSON.parse in a try block, null on any error
readJson(content) ==
    IF content.kind = "json" THEN Returned(content.data) ELSE Returned(Plain(JsNull))

\* { version: 1, peers: {} }
EmptyStore == Document(JsNumber(1), JsObject({}))

\* data && data.version === 1 && data.peers && typeof data.peers === "object";
\* reading a property of null or undefined raises a TypeError
shapeCheck(data) ==
    IF ~truthy(data.top) THEN Returned(FALSE)
    ELSE IF data.top.type \in {"null", "undefined"} THEN Raised
    ELSE Returned(/\ data.version = JsNumber(1)
                  /\ truthy(data.peers)
                  /\ typeOf(data.peers) = "object")

\* loadStore
loadStoreOf(content) ==
    LET read == readJson(content)
        ok == shapeCheck(read.value)
    IN IF read.raised \/ ok.raised THEN Raised
       ELSE IF ok.value THEN Returned(read.value)
       ELSE Returned(EmptyStore)

\* a call of loadStore on the file as it is
Load ==
    /\ output = <<>>
    /\ output' = loadStoreOf(input)
    /\ UNCHANGED <<file, now, req, reply, io, copied, found, shown, earlier, selected,
                   stored, disk, writers, input, cached, beforeOff, steps>>

InitLoad ==
    /\ file = NoFile
    /\ now = 0
    /\ req = NoRequest
    /\ reply = ""
    /\ io = <<>>
    /\ copied = NoCopy
    /\ found = NoPending
    /\ shown = <<>>
    /\ earlier = {}
    /\ selected = 0
    /\ stored = {}
    /\ disk = DiskWith(FALSE)
    /\ writers = [w \in Writers |-> WriterIdle]
    /\ input \in Contents
    /\ output = <<>>
    /\ CacheEmpty
    /\ beforeOff = <<>>
    /\ StepsIdle

NextLoad == Load

SpecLoad == InitLoad /\ [][NextLoad]_vars

\* ------------------------------------------------------------------------
\* The store cache and the pre-turn hook.  The clock counts milliseconds and
\* moves by HookStep; the cache is [store, loadedAtMs, mtimeMs].
\* ------------------------------------------------------------------------

HookStep == 1000
MaxHookClock == 1000

\* const ttlMs = 1000
ttlMs == 1000

\* st.mtimeMs of state.json after a write.  The code only tests modification
\* times for equality, and the time of a new write differs from every earlier
\* one, so it is named by the least number that is neither the time of the
\* file nor the time the cache recorded.
mtimeAfterWrite(m, c) ==
    CHOOSE n \in 1..3 : n \notin {m, c.mtimeMs} /\ \A k \in 1..(n - 1) : k \in {m, c.mtimeMs}

\* the three variables of the cache
TheCache ==
    [store |-> cachedStore, loadedAtMs |-> cachedStoreLoadedAtMs,
     mtimeMs |-> cachedStoreMtimeMs]

\* a cache without time-to-live: every read goes on to stat()
loadStoreCachedNoTtl(c, f, m, t) ==
    IF ~f.exists
    THEN [store |-> loadStore(f),
          cache |-> [store |-> Cached(loadStore(f)), loadedAtMs |-> t, mtimeMs |-> 0]]
    ELSE IF c.store.cached /\ m = c.mtimeMs
    THEN [store |-> c.store.peers, cache |-> [c EXCEPT !.loadedAtMs = t]]
    ELSE [store |-> loadStore(f),
          cache |-> [store |-> Cached(loadStore(f)), loadedAtMs |-> t, mtimeMs |-> m]]

\* loadStoreCached, for cache c, file f with modification time m, at time t:
\* the store it returns and the cache it leaves.  stat() throws when the
\* file is missing.
loadStoreCached(c, f, m, t) ==
    IF c.store.cached /\ t - c.loadedAtMs < ttlMs
    THEN [store |-> c.store.peers, cache |-> c]
    ELSE IF ~f.exists
    THEN [store |-> loadStore(f),
          cache |-> [store |-> Cached(loadStore(f)), loadedAtMs |-> t, mtimeMs |-> 0]]
    ELSE IF c.store.cached /\ m = c.mtimeMs
    THEN [store |-> c.store.peers, cache |-> [c EXCEPT !.loadedAtMs = t]]
    ELSE [store |-> loadStore(f),
          cache |-> [store |-> Cached(loadStore(f)), loadedAtMs |-> t, mtimeMs |-> m]]

\* what a hook or a write leaves: the file, its modification time, the cache
Left(f, m, c) == [file |-> f, mtimeMs |-> m, cache |-> c]

\* writeStoreAndRefreshCache(store) on what an earlier step left
writeStoreAndRefreshCache(left, store, t) ==
    Left(Written(store), mtimeAfterWrite(left.mtimeMs, left.cache),
         [store |-> Cached(store), loadedAtMs |-> t,
          mtimeMs |-> mtimeAfterWrite(left.mtimeMs, left.cache)])

\* the before_agent_start hook for peerKey: what it leaves, the store that
\* loadStoreCached gave it, the lines of its prependContext (none when it
\* returns undefined) and its store writes
beforeAgentStart(c, f, m, peerKey, t) ==
    LET l == loadStoreCached(c, f, m, t)
        start == Left(f, m, l.cache)
        peer == l.store[peerKey]
        e == ensureDefaultProject(peer, defaultProjectName, t)
        healed == IF e.changed
                  THEN writeStoreAndRefreshCache(start, [l.store EXCEPT ![peerKey] = e.peer], t)
                  ELSE start
        selfHeal == IF e.changed THEN <<"write">> ELSE <<>>
        active == findById(e.peer.projects, e.peer.activeProjectId)
        cleared == [l.store EXCEPT ![peerKey] = [e.peer EXCEPT !.pendingReset = FALSE]]
    IN IF peer = NoPeer
       THEN [left |-> start, seen |-> l.store, lines |-> <<>>, io |-> <<>>]
       ELSE IF e.peer.projectsEnabled # TRUE \/ active = 0
       THEN [left |-> healed, seen |-> l.store, lines |-> <<>>, io |-> selfHeal]
       ELSE IF e.peer.pendingReset = TRUE
       THEN [left |-> writeStoreAndRefreshCache(healed, cleared, t), seen |-> l.store,
             lines |-> <<"Active project", "Ignore any context">>,
             io |-> selfHeal \o <<"write">>]
       ELSE [left |-> healed, seen |-> l.store, lines |-> <<"Active project">>,
             io |-> selfHeal]

\* the replies of the commands that select a project
Selecting ==
    {"Projects ON.", "Created and switched to project", "Switched to existing project",
     "Switched to project"}

\* a handler that goes through withPeerState ran and left res: it wrote
\* state.json with writeJsonAtomic, which leaves the cache alone
HookCommand(r, res) ==
    /\ HandledCached(r, res)
    /\ mtimeMs' = mtimeAfterWrite(mtimeMs, TheCache)
    /\ seen' = NoCache
    /\ owed' = (owed \/ res.reply \in Selecting)
    /\ UNCHANGED <<cachedStore, cachedStoreLoadedAtMs, cachedStoreMtimeMs, beforeOff, steps>>

HookOn ==
    \E p \in Users :
        HookCommand(ArgRequest("on", p, Undefined), projectsOn(file, p, NoNumber, now))

HookOff ==
    \E p \in Users :
        HookCommand(ArgRequest("off", p, Undefined), projectsOff(file, p, NoNumber, now))

HookNew ==
    \E p \in Users :
        HookCommand(ArgRequest("new", p, NameA),
                    projectsNew(file, p, NameA, NoNumber, <<"a">>, now))

HookSwitch ==
    \E p \in Users, key \in {Str_proj \o NameA, Str_proj \o slugifyId(defaultProjectName)} :
        HookCommand(ArgRequest("switch", p, key),
                    projectsSwitch(file, p, key, NoNumber, now))

\* a message of the peer reaches the agent: the pre-turn hook runs
BeforeAgentStart ==
    \E p \in Users :
      \E h \in {beforeAgentStart(TheCache, file, mtimeMs, p, now)} :
        /\ file' = h.left.file
        /\ mtimeMs' = h.left.mtimeMs
        /\ cachedStore' = h.left.cache.store
        /\ cachedStoreLoadedAtMs' = h.left.cache.loadedAtMs
        /\ cachedStoreMtimeMs' = h.left.cache.mtimeMs
        /\ seen' = Cached(h.seen)
        /\ req' = ArgRequest("before_agent_start", p, Undefined)
        /\ reply' = IF h.lines = <<>> THEN "(undefined)" ELSE "prependContext"
        /\ shown' = h.lines
        /\ io' = h.io
        /\ copied' = NoCopy
        /\ found' = NoPending
        /\ owed' = (owed /\ ~(loadStore(file)[p] # NoPeer
                                /\ loadStore(file)[p].projectsEnabled = TRUE))
        /\ UNCHANGED <<now, earlier, selected, stored, disk, writers, pure, beforeOff, steps>>

\* time passes
HookTick ==
    /\ now + HookStep <= MaxHookClock
    /\ now' = now + HookStep
    /\ req' = NoRequest
    /\ reply' = ""
    /\ io' = <<>>
    /\ copied' = NoCopy
    /\ found' = NoPending
    /\ shown' = <<>>
    /\ seen' = NoCache
    /\ UNCHANGED <<file, earlier, selected, stored, disk, writers, pure, cachedStore,
                   cachedStoreLoadedAtMs, cachedStoreMtimeMs, mtimeMs, owed, beforeOff, steps>>

InitHook ==
    /\ file = NoFile
    /\ now = 0
    /\ req = NoRequest
    /\ reply = ""
    /\ io = <<>>
    /\ copied = NoCopy
    /\ found = NoPending
    /\ shown = <<>>
    /\ earlier = {}
    /\ selected = 0
    /\ stored = {}
    /\ ApartIdle

NextHook ==
    \/ HookOn
    \/ HookOff
    \/ HookNew
    \/ HookSwitch
    \/ BeforeAgentStart
    \/ HookTick

SpecHook == InitHook /\ [][NextHook]_vars

\* ------------------------------------------------------------------------
\* The peer keys of the three entry points, as functions of strings
\* ------------------------------------------------------------------------

Str_telegram == <<"t", "e", "l", "e", "g", "r", "a", "m">>
Str_unknown == <<"u", "n", "k", "n", "o", "w", "n">>
Str_telegramdm == <<":">> \o Str_telegram \o <<":", "d", "m", ":">>

\* String.prototype.includes
includesString(s, part) ==
    \E i \in 1..(Len(s) - Len(part) + 1) : SubSeq(s, i, i + Len(part) - 1) = part

\* a ?? b
orElse(a, b) == IF a = Undefined THEN b ELSE a

\* buildPeerKeyFromCommandCtx
buildPeerKeyFromCommandCtx(channel, senderId) ==
    toLowerCase(orElse(channel, Str_unknown)) \o <<":">> \o orElse(senderId, Str_unknown)

\* the match of /:telegram:dm:([^:]+)$/ : the characters after the last
\* colon, when there are some and ":telegram:dm:" stands before them; <<>>
\* for no match
matchTelegramDm(s) ==
    LET colons == {i \in 1..Len(s) : s[i] = ":"}
        last == CHOOSE i \in colons : \A j \in colons : j <= i
    IN IF colons # {} /\ last < Len(s) /\ last >= Len(Str_telegramdm)
          /\ SubSeq(s, last - Len(Str_telegramdm) + 1, last) = Str_telegramdm
       THEN SubSeq(s, last + 1, Len(s))
       ELSE <<>>

\* extractTelegramDmPeerIdFromSessionKey; <<>> for null
extractTelegramDmPeerIdFromSessionKey(sessionKey) == matchTelegramDm(toLowerCase(sessionKey))

\* buildPeerKeyFromBeforeAgentStart
buildPeerKeyFromBeforeAgentStart(sessionKeyArg, channelId, conversationId) ==
    LET sessionKeyRaw == orElse(sessionKeyArg, <<>>)
        sessionKey == toLowerCase(sessionKeyRaw)
        channel == toLowerCase(orElse(channelId, Str_unknown))
        peer == extractTelegramDmPeerIdFromSessionKey(sessionKey)
        conv == trim(orElse(conversationId, <<>>))
    IN IF (channel = Str_telegram \/ includesString(sessionKey, <<":">> \o Str_telegram \o <<":">>))
          /\ peer # <<>>
       THEN Str_telegram \o <<":">> \o peer
       ELSE IF conv # <<>> THEN channel \o <<":">> \o conv
       ELSE IF sessionKeyRaw # <<>> THEN channel \o <<":">> \o sessionKeyRaw
       ELSE channel \o <<":">> \o Str_unknown

\* the peer key of the resolve_room_key hook; <<>> when it returns undefined
\* before it has one
roomPeerKey(peerId) ==
    IF trim(orElse(peerId, <<>>)) = <<>> THEN <<>>
    ELSE Str_telegram \o <<":">> \o trim(orElse(peerId, <<>>))

\* peer ids: one or two characters, digits and letters of either case
IdChars == {"7", "a", "B"}

PeerIds == {<<c>> : c \in IdChars} \cup {<<c, d>> : c \in IdChars, d \in IdChars}

\* one Telegram DM peer as the three entry points are told about it: the
\* command context, the hook context and the routing event
Entries ==
    {[id |-> s, channel |-> Str_telegram,
      sessionKey |-> agent \o Str_telegramdm \o s, channelId |-> ch,
      conversationId |-> IF cv THEN s ELSE Undefined] :
        s \in PeerIds, agent \in {<<"a", "g", "e", "n", "t", ":", "m">>, <<"A">>},
        ch \in {Undefined, Str_telegram}, cv \in BOOLEAN}

NoKeys == [command |-> <<>>, hook |-> <<>>, routing |-> <<>>]

\* a command of the peer arrives
CommandKey ==
    /\ output' = [output EXCEPT
                     !.command = buildPeerKeyFromCommandCtx(input.channel, input.id)]
    /\ UNCHANGED <<file, now, req, reply, io, copied, found, shown, earlier, selected,
                   stored, disk, writers, input, cached, beforeOff, steps>>

\* a message of the peer reaches the pre-turn hook
HookKey ==
    /\ output' = [output EXCEPT
                     !.hook = buildPeerKeyFromBeforeAgentStart(input.sessionKey, input.channelId,
                                                               input.conversationId)]
    /\ UNCHANGED <<file, now, req, reply, io, copied, found, shown, earlier, selected,
                   stored, disk, writers, input, cached, beforeOff, steps>>

\* a message of the peer reaches the routing hook
RoutingKey ==
    /\ output' = [output EXCEPT !.routing = roomPeerKey(input.id)]
    /\ UNCHANGED <<file, now, req, reply, io, copied, found, shown, earlier, selected,
                   stored, disk, writers, input, cached, beforeOff, steps>>

InitKeys ==
    /\ file = NoFile
    /\ now = 0
    /\ req = NoRequest
    /\ reply = ""
    /\ io = <<>>
    /\ copied = NoCopy
    /\ found = NoPending
    /\ shown = <<>>
    /\ earlier = {}
    /\ selected = 0
    /\ stored = {}
    /\ disk = DiskWith(FALSE)
    /\ writers = [w \in Writers |-> WriterIdle]
    /\ CacheEmpty
    /\ beforeOff = <<>>
    /\ StepsIdle
    /\ input \in Entries
    /\ output = NoKeys

NextKeys ==
    \/ CommandKey
    \/ HookKey
    \/ RoutingKey

SpecKeys == InitKeys /\ [][NextKeys]_vars

\* ------------------------------------------------------------------------
\* The routing hook
\* ------------------------------------------------------------------------

\* the message ids of routed events, around the one a command may carry
EventMessageIds == {NoNumber, 5, 9}

\* the room key the gateway proposes
BaseRoomKey == <<"r">>

Str_colonproj == <<":", "p", "r", "o", "j", ":">>

\* routed events: whether hardIsolationEnabled is set, event.channel and
\* event.peer.kind
EventShapes ==
    {<<TRUE, "telegram", "dm">>, <<TRUE, "telegram", "group">>}

\* sanitizeRoomKeySuffixToken
sanitizeRoomKeySuffixToken(token) ==
    slice0(dropTrailing(dropLeading(
        replaceRuns(toLowerCase(trim(orElse(token, <<>>))), SlugChars \cup {"_", "-"}, FALSE),
        {"-"}), {"-"}), 80)

\* msgId != null && effectiveFrom != null && msgId < effectiveFrom
\*     ? (peer.previousProjectId ?? peer.activeProjectId) : peer.activeProjectId
activeIdFor(peer, msgId) ==
    IF msgId # NoNumber /\ peer.effectiveFromMessageId # NoNumber
       /\ msgId < peer.effectiveFromMessageId
    THEN orElse(peer.previousProjectId, peer.activeProjectId)
    ELSE peer.activeProjectId

\* the resolve_room_key hook for an event of shape `shape` of the peer with
\* key peerKey: what it leaves, the store loadStoreCached gave it, the room
\* key it returns (<<>> for undefined) and its store writes
resolveRoomKey(c, f, m, shape, peerKey, msgId, base, t) ==
    LET l == loadStoreCached(c, f, m, t)
        start == Left(f, m, l.cache)
        peer == l.store[peerKey]
        e == ensureDefaultProject(peer, defaultProjectName, t)
        healed == IF e.changed
                  THEN writeStoreAndRefreshCache(start, [l.store EXCEPT ![peerKey] = e.peer], t)
                  ELSE start
        selfHeal == IF e.changed THEN <<"write">> ELSE <<>>
        suffix == sanitizeRoomKeySuffixToken(activeIdFor(e.peer, msgId))
    IN IF ~shape[1] \/ shape[2] # "telegram" \/ shape[3] # "dm"
       THEN [left |-> Left(f, m, c), seen |-> NoCache, roomKey |-> <<>>, io |-> <<>>]
       ELSE IF peer = NoPeer
       THEN [left |-> start, seen |-> Cached(l.store), roomKey |-> <<>>, io |-> <<>>]
       ELSE IF e.peer.projectsEnabled # TRUE \/ suffix = <<>> \/ trim(base) = <<>>
       THEN [left |-> healed, seen |-> Cached(l.store), roomKey |-> <<>>, io |-> selfHeal]
       ELSE [left |-> healed, seen |-> Cached(l.store),
             roomKey |-> trim(base) \o Str_colonproj \o suffix, io |-> selfHeal]

RouteNew ==
    \E p \in Users, m \in MessageIds :
        HookCommand([ArgRequest("new", p, NameA) EXCEPT !.messageId = m],
                    projectsNew(file, p, NameA, m, <<"a">>, now))

RouteSwitch ==
    \E p \in Users, m \in MessageIds, key \in {Str_proj \o slugifyId(defaultProjectName)} :
        HookCommand([ArgRequest("switch", p, key) EXCEPT !.messageId = m],
                    projectsSwitch(file, p, key, m, now))

\* the gateway asks for the room key of a message
ResolveRoomKey ==
    \E p \in Users, shape \in EventShapes, m \in EventMessageIds :
      \E h \in {resolveRoomKey(TheCache, file, mtimeMs, shape, p, m, BaseRoomKey, now)} :
        /\ file' = h.left.file
        /\ mtimeMs' = h.left.mtimeMs
        /\ cachedStore' = h.left.cache.store
        /\ cachedStoreLoadedAtMs' = h.left.cache.loadedAtMs
        /\ cachedStoreMtimeMs' = h.left.cache.mtimeMs
        /\ seen' = h.seen
        /\ req' = [ArgRequest("resolve_room_key", p, shape) EXCEPT !.messageId = m]
        /\ reply' = IF h.roomKey = <<>> THEN "(undefined)" ELSE "roomKey"
        /\ shown' = h.roomKey
        /\ io' = h.io
        /\ copied' = NoCopy
        /\ found' = NoPending
        /\ UNCHANGED <<now, earlier, selected, stored, disk, writers, pure, owed, beforeOff, steps>>

InitRoute == InitHook

NextRoute ==
    \/ RouteNew
    \/ RouteSwitch
    \/ ResolveRoomKey
    \/ HookTick

SpecRoute == InitRoute /\ [][NextRoute]_vars

\* ------------------------------------------------------------------------
\* Both hooks of one message: the gateway asks for the room key, then the
\* pre-turn hook runs; commands arrive in between
\* ------------------------------------------------------------------------

InitBoth == InitHook

NextBoth ==
    \/ HookOn
    \/ HookNew
    \/ ResolveRoomKey
    \/ BeforeAgentStart
    \/ HookTick

SpecBoth == InitBoth /\ [][NextBoth]_vars

\* ------------------------------------------------------------------------
\* ensureDefaultProject called twice in a row
\* ------------------------------------------------------------------------

\* the PeerState values of PeerStates, and those whose only project has the
\* empty string for its id
EnsureInputs ==
    PeerStates
    \cup {[NewPeer EXCEPT !.projects = <<[x EXCEPT !.id = <<>>]>>, !.activeProjectId = a] :
             x \in StoredProjects, a \in {<<>>, Str_proj \o NameA}}

\* a caller runs ensureDefaultProject on the peer it holds
EnsureFirst ==
    /\ output = <<>>
    /\ output' = <<ensureDefaultProject(input.peer, input.name, now)>>
    /\ UNCHANGED <<file, now, req, reply, io, copied, found, shown, earlier, selected,
                   stored, disk, writers, input, cached, beforeOff, steps>>

\* and runs it again on what the first call left
EnsureSecond ==
    /\ Len(output) = 1
    /\ output' = Append(output, ensureDefaultProject(output[1].peer, input.name, now))
    /\ UNCHANGED <<file, now, req, reply, io, copied, found, shown, earlier, selected,
                   stored, disk, writers, input, cached, beforeOff, steps>>

InitTwice ==
    /\ file = NoFile
    /\ now = 0
    /\ req = NoRequest
    /\ reply = ""
    /\ io = <<>>
    /\ copied = NoCopy
    /\ found = NoPending
    /\ shown = <<>>
    /\ earlier = {}
    /\ selected = 0
    /\ stored = {}
    /\ disk = DiskWith(FALSE)
    /\ writers = [w \in Writers |-> WriterIdle]
    /\ CacheEmpty
    /\ beforeOff = <<>>
    /\ StepsIdle
    /\ input \in {[peer |-> ps, name |-> n] :
                     ps \in EnsureInputs, n \in {defaultProjectName, NameA}}
    /\ output = <<>>

NextTwice ==
    \/ EnsureFirst
    \/ EnsureSecond

SpecTwice == InitTwice /\ [][NextTwice]_vars

\* ------------------------------------------------------------------------
\* on, off, new and switch with and without a message id
\* ------------------------------------------------------------------------

\* the legacy store LegacyWithTwo after its project proj-inbox was wiped
LegacyWiped ==
    wipeProjectConfirm(resetRemove(LegacyWithTwo, Peer1, Str_projinbox, "0a", 0).file,
                       Peer1, "0a", Str_projinbox, NoNumber, 0, "ok").file

\* the keys /projects switch is given: the ids of the projects a store of
\* this specification can hold, and the id of none
ToggleKeys ==
    {Str_proj \o slugifyId(n) : n \in {defaultProjectName, NameA, Name2}} \cup {<<"z">>}

\* a handler that goes through withPeerState ran and left res
Toggled(r, res) ==
    /\ HandledCached(r, res)
    /\ beforeOff' = IF r.cmd = "off" THEN loadStore(file)[r.peer].activeProjectId
                    ELSE beforeOff
    /\ UNCHANGED steps
    /\ UNCHANGED cached

ToggleOn ==
    \E p \in Users, m \in MessageIds :
        Toggled([ArgRequest("on", p, Undefined) EXCEPT !.messageId = m],
                projectsOn(file, p, m, now))

ToggleOff ==
    \E p \in Users, m \in MessageIds :
        Toggled([ArgRequest("off", p, Undefined) EXCEPT !.messageId = m],
                projectsOff(file, p, m, now))

ToggleNew ==
    \E p \in Users, m \in MessageIds :
        Toggled([ArgRequest("new", p, NameA) EXCEPT !.messageId = m],
                projectsNew(file, p, NameA, m, <<"a">>, now))

ToggleSwitch ==
    \E p \in Users, m \in MessageIds, key \in ToggleKeys :
        Toggled([ArgRequest("switch", p, key) EXCEPT !.messageId = m],
                projectsSwitch(file, p, key, m, now))

\* the stores were written at time 0; the commands arrive later
InitToggle ==
    /\ file \in {NoFile, StoreOnAndNew, LegacyWiped}
    /\ now = 1
    /\ req = NoRequest
    /\ reply = ""
    /\ io = <<>>
    /\ copied = NoCopy
    /\ found = NoPending
    /\ shown = <<>>
    /\ earlier = {}
    /\ selected = 0
    /\ stored = {}
    /\ ApartIdle

NextToggle ==
    \/ ToggleOn
    \/ ToggleOff
    \/ ToggleNew
    \/ ToggleSwitch

SpecToggle == InitToggle /\ [][NextToggle]_vars

\* ------------------------------------------------------------------------
\* Two handlers in flight: each runs from one await of a file-system call to
\* the next, and the other one may run in between
\* ------------------------------------------------------------------------

\* the project that /projects reset remove armed, and the nonce it gave
TaskProjectId == Str_proj \o slugifyId(Name2)
TaskNonce == "0a"

\* stores with a wipe armed for Peer1: of everything, and of project p2
SeedArmedAll == wipeArm(StoreOnAndNew, Peer1, TaskNonce, 0).file
SeedArmedOne == resetRemove(StoreOnAndNew, Peer1, TaskProjectId, TaskNonce, 0).file

\* a handler that has not started: its command and peer, the store it holds
\* (held), the pending wipe it found, whether it passed the nonce guard, the
\* text it returns, and state.json as it was when the two commands arrived
Task(cmd, peerKey, f) ==
    [pc |-> "load", cmd |-> cmd, peer |-> peerKey, held |-> NoFile,
     pending |-> NoPending, passed |-> FALSE, away |-> NoFile, reply |-> "",
     start |-> f]

\* the two commands: for two peers, or the same confirm twice for one peer
TaskPairs(f) ==
    {<<Task(c1, Peer1, f), Task(c2, Peer2, f)>> :
        c1 \in {"new", "wipe confirm"}, c2 \in {"on", "new"}}
    \cup {<<Task(c, Peer1, f), Task(c, Peer1, f)>> :
             c \in {"wipe confirm", "wipe project confirm"}}

\* the command of task k run on state.json f without interruption
taskAlone(k, f) ==
    IF k.cmd = "on" THEN projectsOn(f, k.peer, NoNumber, now)
    ELSE IF k.cmd = "new" THEN projectsNew(f, k.peer, NameA, NoNumber, <<"a">>, now)
    ELSE IF k.cmd = "wipe confirm"
    THEN wipeConfirm(f, k.peer, TaskNonce, NoNumber, now, "ok", "ok", "ok")
    ELSE wipeProjectConfirm(f, k.peer, TaskNonce, TaskProjectId, NoNumber, now, "ok")

\* the directory ${projectsUxDir}.DELETING.${stamp} of a pending wipe: the
\* state.json that a rename moved there, NoFile when there is none
deletingDir(pending) ==
    IF \E j \in DOMAIN tasks : tasks[j].pending = pending /\ tasks[j].away.exists
    THEN (CHOOSE a \in {tasks[j].away : j \in DOMAIN tasks} : a.exists)
    ELSE NoFile

\* task i goes on as record k; the observation variables are left alone
TaskStep(i, k) ==
    /\ tasks' = [tasks EXCEPT ![i] = k]
    /\ UNCHANGED <<now, req, reply, io, copied, found, shown, earlier, selected, stored,
                   disk, writers, pure, cached, beforeOff>>

\* the refusal of a confirm that found pending, "" when the guard lets it pass
confirmRefusal(k, pending) ==
    IF isExpired(pending, now) THEN "Refused: nonce expired."
    ELSE IF k.cmd = "wipe confirm" /\ mismatchAll(pending, TaskNonce)
    THEN "Refused: nonce mismatch or wrong scope."
    ELSE IF k.cmd = "wipe project confirm"
            /\ mismatchProject(pending, TaskNonce, TaskProjectId)
    THEN "Refused: nonce mismatch or wrong projectId."
    ELSE ""

\* the first loadStore of a handler, and what it does before its next await
StepLoad(i) ==
    /\ tasks[i].pc = "load"
    /\ \E k \in {[tasks[i] EXCEPT !.held = file]},
          pending \in {wipePeer(file, tasks[i].peer).pendingWipe} :
         /\ IF k.cmd \in {"on", "new"}
            THEN TaskStep(i, [k EXCEPT !.pc = "write"])
            ELSE IF pending = NoPending
            THEN TaskStep(i, [k EXCEPT !.pc = "done", !.reply = "No wipe pending."])
            ELSE TaskStep(i, [k EXCEPT !.pc = "clear", !.pending = pending,
                                       !.reply = confirmRefusal(k, pending),
                                       !.passed = (confirmRefusal(k, pending) = "")])
         /\ UNCHANGED <<file, projectsUxDir>>

\* the callback of withPeerState and its writeJsonAtomic, which throws when
\* the plugin directory is missing
StepWrite(i) ==
    /\ tasks[i].pc = "write"
    /\ IF projectsUxDir
       THEN /\ file' = taskAlone(tasks[i], tasks[i].held).file
            /\ TaskStep(i, [tasks[i] EXCEPT !.pc = "done",
                                            !.reply = taskAlone(tasks[i], tasks[i].held).reply])
       ELSE /\ file' = file
            /\ TaskStep(i, [tasks[i] EXCEPT !.pc = "done", !.reply = "(thrown)"])
    /\ UNCHANGED projectsUxDir

\* clearPending: the store the handler holds is written without the pending
\* wipe; a refused confirm returns, one that passed goes on to the backup
StepClear(i) ==
    /\ tasks[i].pc = "clear"
    /\ IF projectsUxDir
       THEN /\ file' = clearPending(tasks[i].held, tasks[i].peer)
            /\ TaskStep(i, [tasks[i] EXCEPT !.pc = IF tasks[i].passed THEN "backup"
                                                   ELSE "done"])
       ELSE /\ file' = file
            /\ TaskStep(i, [tasks[i] EXCEPT !.pc = "done", !.reply = "(thrown)"])
    /\ UNCHANGED projectsUxDir

\* fs.mkdir(backupDir) and fs.cp(projectsUxDir, backupTarget)
StepBackup(i) ==
    /\ tasks[i].pc = "backup"
    /\ TaskStep(i, [tasks[i] EXCEPT !.pc = IF tasks[i].cmd = "wipe confirm" THEN "rename"
                                           ELSE "reload"])
    /\ UNCHANGED <<file, projectsUxDir>>

\* fs.rename(projectsUxDir, deletingDir): a missing plugin directory is
\* passed over, a deletingDir that holds files makes the rename throw
StepRename(i) ==
    /\ tasks[i].pc = "rename"
    /\ IF ~projectsUxDir
       THEN /\ TaskStep(i, [tasks[i] EXCEPT !.pc = "mkdir"])
            /\ UNCHANGED <<file, projectsUxDir>>
       ELSE IF deletingDir(tasks[i].pending).exists
       THEN /\ TaskStep(i, [tasks[i] EXCEPT !.pc = "done", !.reply = "(thrown)"])
            /\ UNCHANGED <<file, projectsUxDir>>
       ELSE /\ TaskStep(i, [tasks[i] EXCEPT !.pc = "mkdir", !.away = file])
            /\ file' = NoFile
            /\ projectsUxDir' = FALSE

\* fs.mkdir(projectsUxDir)
StepMkdir(i) ==
    /\ tasks[i].pc = "mkdir"
    /\ TaskStep(i, [tasks[i] EXCEPT !.pc = "cpback"])
    /\ projectsUxDir' = TRUE
    /\ UNCHANGED file

\* fs.cp(deletingDir, projectsUxDir): what it finds there replaces state.json
StepCopyBack(i) ==
    /\ tasks[i].pc = "cpback"
    /\ TaskStep(i, [tasks[i] EXCEPT !.pc = "reload"])
    /\ IF deletingDir(tasks[i].pending).exists
       THEN file' = deletingDir(tasks[i].pending) /\ projectsUxDir' = TRUE
       ELSE UNCHANGED <<file, projectsUxDir>>

\* the loadStore of wipeProjectsUxForPeer and of backupAndWipeOneProject
StepReload(i) ==
    /\ tasks[i].pc = "reload"
    /\ TaskStep(i, [tasks[i] EXCEPT !.pc = "rewrite", !.held = file])
    /\ UNCHANGED <<file, projectsUxDir>>

\* what the handler does to the store it reloaded, and its write
StepRewrite(i) ==
    /\ tasks[i].pc = "rewrite"
    /\ \E k \in {tasks[i]} :
       \E one \in {backupAndWipeOneProject(k.held, k.peer, k.pending, TaskProjectId,
                                           NoNumber, now, "ok")} :
         IF k.cmd = "wipe confirm"
         THEN IF projectsUxDir
              THEN /\ file' = wipeProjectsUxForPeer(k.held, k.peer, NoNumber, now)
                   /\ TaskStep(i, [k EXCEPT !.pc = "rm"])
              ELSE /\ file' = file
                   /\ TaskStep(i, [k EXCEPT !.pc = "done", !.reply = "(thrown)"])
         ELSE IF one.reply # "WIPED project"
              THEN /\ file' = file
                   /\ TaskStep(i, [k EXCEPT !.pc = "done", !.reply = one.reply])
              ELSE IF projectsUxDir
              THEN /\ file' = one.file
                   /\ TaskStep(i, [k EXCEPT !.pc = "done", !.reply = one.reply])
              ELSE /\ file' = file
                   /\ TaskStep(i, [k EXCEPT !.pc = "done", !.reply = "(thrown)"])
    /\ UNCHANGED projectsUxDir

\* fs.rm(deletingDir), and the reply of the wipe of everything
StepRm(i) ==
    /\ tasks[i].pc = "rm"
    /\ tasks' = [j \in DOMAIN tasks |->
                   IF j = i
                   THEN [tasks[j] EXCEPT !.pc = "done", !.away = NoFile,
                                         !.reply = "WIPED ALL projects state for this DM."]
                   ELSE IF tasks[j].pending = tasks[i].pending
                   THEN [tasks[j] EXCEPT !.away = NoFile]
                   ELSE tasks[j]]
    /\ UNCHANGED <<file, projectsUxDir, now, req, reply, io, copied, found, shown, earlier,
                   selected, stored, disk, writers, pure, cached, beforeOff>>

InitTasks ==
    /\ file \in {SeedArmedAll, SeedArmedOne}
    /\ tasks \in TaskPairs(file)
    /\ projectsUxDir = TRUE
    /\ now = 0
    /\ req = NoRequest
    /\ reply = ""
    /\ io = <<>>
    /\ copied = NoCopy
    /\ found = NoPending
    /\ shown = <<>>
    /\ earlier = {}
    /\ selected = 0
    /\ stored = {}
    /\ disk = DiskWith(FALSE)
    /\ writers = [w \in Writers |-> WriterIdle]
    /\ input = <<>>
    /\ output = <<>>
    /\ CacheEmpty
    /\ beforeOff = <<>>

NextTasks ==
    \/ \E i \in DOMAIN tasks : StepLoad(i)
    \/ \E i \in DOMAIN tasks : StepWrite(i)
    \/ \E i \in DOMAIN tasks : StepClear(i)
    \/ \E i \in DOMAIN tasks : StepBackup(i)
    \/ \E i \in DOMAIN tasks : StepRename(i)
    \/ \E i \in DOMAIN tasks : StepMkdir(i)
    \/ \E i \in DOMAIN tasks : StepCopyBack(i)
    \/ \E i \in DOMAIN tasks : StepReload(i)
    \/ \E i \in DOMAIN tasks : StepRewrite(i)
    \/ \E i \in DOMAIN tasks : StepRm(i)

SpecTasks == InitTasks /\ [][NextTasks]_vars

\* ------------------------------------------------------------------------
\* An armed wipe, and the commands and hooks that are not wipe commands.
\* Every handler takes FrameStep milliseconds, up to MaxFrameClock.
\* ------------------------------------------------------------------------

FrameStep == 250
MaxFrameClock == 1000

\* a handler ran on request r and left res, FrameStep milliseconds later
FrameHandled(r, res) ==
    /\ now + FrameStep <= MaxFrameClock
    /\ now' = now + FrameStep
    /\ file' = res.file
    /\ reply' = res.reply
    /\ io' = res.io
    /\ copied' = res.copied
    /\ req' = r
    /\ found' = loadStore(file)[r.peer].pendingWipe
    /\ shown' = res.tokens
    /\ UNCHANGED <<earlier, selected, stored, disk, writers, pure, owed, beforeOff, steps>>

\* what a hook left (h.left), with the key it returned, if any
FrameHooked(r, h, text, key) ==
    /\ FrameHandled(r, [file |-> h.left.file, reply |-> text, io |-> h.io,
                        copied |-> NoCopy, tokens |-> key])
    /\ mtimeMs' = h.left.mtimeMs
    /\ cachedStore' = h.left.cache.store
    /\ cachedStoreLoadedAtMs' = h.left.cache.loadedAtMs
    /\ cachedStoreMtimeMs' = h.left.cache.mtimeMs
    /\ seen' = Cached(h.seen)

\* a handler that goes through withPeerState: the cache is left alone
FramePlain(r, res) ==
    FrameHooked(r, [left |-> Left(res.file, mtimeAfterWrite(mtimeMs, TheCache), TheCache),
                    io |-> res.io, seen |-> EmptyPeers], res.reply, res.tokens)

\* a handler that writes, if it does, with writeStoreAndRefreshCache
FrameRefresh(r, res) ==
    FrameHooked(r, [left |-> IF res.io = <<>> THEN Left(file, mtimeMs, TheCache)
                             ELSE writeStoreAndRefreshCache(Left(file, mtimeMs, TheCache),
                                                            loadStore(res.file), now),
                    io |-> res.io, seen |-> EmptyPeers], res.reply, res.tokens)

FrameWipeArm ==
    \E p \in Users :
        FrameRefresh(Request("wipe", p, Undefined, "", NoNumber),
                     wipeArm(file, p, TaskNonce, now))

FrameOn ==
    \E p \in Users :
        FramePlain(ArgRequest("on", p, Undefined), projectsOn(file, p, NoNumber, now))

FrameOff ==
    \E p \in Users :
        FramePlain(ArgRequest("off", p, Undefined), projectsOff(file, p, NoNumber, now))

FrameNew ==
    \E p \in Users :
        FramePlain(ArgRequest("new", p, NameA),
                   projectsNew(file, p, NameA, NoNumber, <<"a">>, now))

FrameSwitch ==
    \E p \in Users, key \in {Str_proj \o NameA, Str_proj \o slugifyId(defaultProjectName)} :
        FramePlain(ArgRequest("switch", p, key), projectsSwitch(file, p, key, NoNumber, now))

FrameList ==
    \E p \in Users, c \in {"list", "debug"} :
        FrameRefresh(ArgRequest(c, p, Undefined), projectsList(file, p, now))

FrameMemoryRemember ==
    \E p \in Users :
        FrameRefresh(ArgRequest("memory remember", p, <<"t1">>),
                     memoryRemember(file, p, "t1", now))

FrameMemoryGlobalRemember ==
    \E p \in Users :
        FrameRefresh(ArgRequest("memory global remember", p, <<"t1">>),
                     memoryGlobalRemember(file, p, "t1", now))

FrameMemoryList ==
    \E p \in Users :
        FrameRefresh(ArgRequest("memory list", p, Undefined), memoryList(file, p, now))

FrameBeforeAgentStart ==
    \E p \in Users :
      \E h \in {beforeAgentStart(TheCache, file, mtimeMs, p, now)} :
        FrameHooked(ArgRequest("before_agent_start", p, Undefined), h,
                    IF h.lines = <<>> THEN "(undefined)" ELSE "prependContext", h.lines)

FrameResolveRoomKey ==
    \E p \in Users :
      \E h \in {resolveRoomKey(TheCache, file, mtimeMs, <<TRUE, "telegram", "dm">>, p,
                               NoNumber, BaseRoomKey, now)} :
        FrameHooked(ArgRequest("resolve_room_key", p, Undefined),
                    [h EXCEPT !.seen = h.seen.peers],
                    IF h.roomKey = <<>> THEN "(undefined)" ELSE "roomKey", h.roomKey)

InitFrame ==
    /\ file \in {StoreOnAndNew, SeedArmedOne}
    /\ now = 0
    /\ req = NoRequest
    /\ reply = ""
    /\ io = <<>>
    /\ copied = NoCopy
    /\ found = NoPending
    /\ shown = <<>>
    /\ earlier = {}
    /\ selected = 0
    /\ stored = {}
    /\ ApartIdle

NextFrame ==
    \/ FrameWipeArm
    \/ FrameOn
    \/ FrameOff
    \/ FrameNew
    \/ FrameSwitch
    \/ FrameList
    \/ FrameMemoryRemember
    \/ FrameMemoryGlobalRemember
    \/ FrameMemoryList
    \/ FrameBeforeAgentStart
    \/ FrameResolveRoomKey

SpecFrame == InitFrame /\ [][NextFrame]_vars

\* ------------------------------------------------------------------------
\* Commands that carry the message id of their Telegram message: on, switch
\* and the wipe of one project
\* ------------------------------------------------------------------------

\* ctx.messageId of the commands; Telegram numbers the messages of a chat in
\* increasing order
StableMessageIds == {NoNumber, 7, 9}

\* message m is later than the one the peer's effectiveFromMessageId names
laterThanEffective(f, peerKey, m) ==
    m = NoNumber \/ m > loadStore(f)[peerKey].effectiveFromMessageId

StableOn ==
    \E p \in Users, m \in StableMessageIds :
        /\ laterThanEffective(file, p, m)
        /\ Handle([ArgRequest("on", p, Undefined) EXCEPT !.messageId = m],
                  projectsOn(file, p, m, now))

StableSwitch ==
    \E p \in Users, m \in StableMessageIds, key \in ToggleKeys :
        /\ laterThanEffective(file, p, m)
        /\ Handle([ArgRequest("switch", p, key) EXCEPT !.messageId = m],
                  projectsSwitch(file, p, key, m, now))

StableWipeProjectConfirm ==
    \E p \in Users, id \in ProjectIdArgs, m \in StableMessageIds :
        /\ laterThanEffective(file, p, m)
        /\ Handle(Request("wipe project confirm", p, id, TaskNonce, m),
                  wipeProjectConfirm(file, p, TaskNonce, id, m, now, "ok"))

NextStable ==
    \/ StableOn
    \/ StableSwitch
    \/ CmdResetRemove
    \/ StableWipeProjectConfirm

SpecStable == Init /\ [][NextStable]_vars

\* ------------------------------------------------------------------------
\* The memory commands of one peer with two tokens, between the commands that
\* change the active project and the mode.  `stored` is here the sequence of
\* the pairs <<scope, token>> of the remember commands that replied Saved, in
\* the order of the commands: the scope is the activeProjectId that
\* state.json held for the peer when the command arrived, or GlobalScope.
\* ------------------------------------------------------------------------

\* tokens given to /memory remember and /memory global remember
MemoryTokens == {"t1", "t2"}

\* the scope of /memory global remember in the record of the commands
GlobalScope == <<"global">>

\* the remember commands that the record holds at most
MaxRemembered == 3

\* arguments of /projects switch
MemoryKeys == {Str_proj \o slugifyId(n) : n \in {defaultProjectName, Name2}}

\* a command of the peer ran and left res; scope is where a remember saves
Remembered(r, res, scope) ==
    /\ Handled(r, res)
    /\ stored' = IF res.reply \in {"Saved in project", "Saved globally"}
                 THEN Append(stored, <<scope, r.arg>>)
                 ELSE stored
    /\ UNCHANGED <<earlier, selected>>

MemRemember ==
    \E p \in Users, token \in MemoryTokens :
        /\ Len(stored) < MaxRemembered
        /\ Remembered(ArgRequest("memory remember", p, token),
                      memoryRemember(file, p, token, now),
                      loadStore(file)[p].activeProjectId)

MemGlobalRemember ==
    \E p \in Users, token \in MemoryTokens :
        /\ Len(stored) < MaxRemembered
        /\ Remembered(ArgRequest("memory global remember", p, token),
                      memoryGlobalRemember(file, p, token, now), GlobalScope)

MemList ==
    \E p \in Users :
        Remembered(ArgRequest("memory list", p, Undefined), memoryList(file, p, now),
                   GlobalScope)

MemSwitch ==
    \E p \in Users, key \in MemoryKeys :
        Remembered(ArgRequest("switch", p, key), projectsSwitch(file, p, key, NoNumber, now),
                   GlobalScope)

MemOff ==
    \E p \in Users :
        Remembered(ArgRequest("off", p, Undefined), projectsOff(file, p, NoNumber, now),
                   GlobalScope)

MemOn ==
    \E p \in Users :
        Remembered(ArgRequest("on", p, Undefined), projectsOn(file, p, NoNumber, now),
                   GlobalScope)

InitMemory ==
    /\ file = StoreOnAndNew
    /\ now = 0
    /\ req = NoRequest
    /\ reply = ""
    /\ io = <<>>
    /\ copied = NoCopy
    /\ found = NoPending
    /\ shown = <<>>
    /\ earlier = {}
    /\ selected = 0
    /\ stored = <<>>
    /\ ApartIdle

NextMemory ==
    \/ MemRemember
    \/ MemGlobalRemember
    \/ MemList
    \/ MemSwitch
    \/ MemOff
    \/ MemOn

SpecMemory == InitMemory /\ [][NextMemory]_vars

\* ------------------------------------------------------------------------
\* The text of the pre-turn hook for projects with names of several lengths:
\* new, switch and the hook, each FrameStep milliseconds after the other.
\* `shown` is here the prependContext that the hook returned, character by
\* character.
\* ------------------------------------------------------------------------

\* cfg.maxInjectedNoteChars and cfg.maxPrefixChars, when the configuration
\* gives neither
maxInjectedNoteChars == 600
maxPrefixChars == 240

\* clampText
clampText(text, maxChars) ==
    IF maxChars <= 0 THEN <<>>
    ELSE IF Len(orElse(text, <<>>)) > maxChars
    THEN slice0(orElse(text, <<>>), maxChars)
    ELSE orElse(text, <<>>)

\* lines.join(sep)
RECURSIVE join(_, _)
join(lines, sep) ==
    IF lines = <<>> THEN <<>>
    ELSE IF Len(lines) = 1 THEN lines[1]
    ELSE lines[1] \o sep \o join(Tail(lines), sep)

\* "Active project: "
Str_ActiveProject ==
    <<"A", "c", "t", "i", "v", "e", " ", "p", "r", "o", "j", "e", "c", "t", ":", " ">>

\* "Project notes (user-provided):"
Str_ProjectNotes ==
    <<"P", "r", "o", "j", "e", "c", "t", " ", "n", "o", "t", "e", "s", " ", "(", "u",
      "s", "e", "r", "-", "p", "r", "o", "v", "i", "d", "e", "d", ")", ":">>

\* the line that the hook adds when peer.pendingReset is set
AntiBleed ==
    <<"I", "g", "n", "o", "r", "e", " ", "a", "n", "y", " ", "c", "o", "n", "t", "e",
      "x", "t", " ", "n", "o", "t", " ", "e", "x", "p", "l", "i", "c", "i", "t", "l",
      "y", " ", "s", "t", "a", "t", "e", "d", " ", "i", "n", " ", "t", "h", "i", "s",
      " ", "p", "r", "o", "j", "e", "c", "t", "'", "s", " ", "m", "e", "s", "s", "a",
      "g", "e", "s", " ", "o", "r", " ", "n", "o", "t", "e", "s", ".", " ", "I", "f",
      " ", "i", "n", "f", "o", "r", "m", "a", "t", "i", "o", "n", " ", "i", "s", " ",
      "m", "i", "s", "s", "i", "n", "g", ",", " ", "p", "r", "o", "c", "e", "e", "d",
      " ", "w", "i", "t", "h", " ", "m", "i", "n", "i", "m", "a", "l", " ", "a", "s",
      "s", "u", "m", "p", "t", "i", "o", "n", "s", " ", "a", "n", "d", " ", "s", "t",
      "a", "t", "e", " ", "t", "h", "e", "m", ".">>

\* the prependContext of the hook for a peer with projects enabled whose
\* active project is among its projects
prependContext(peer) ==
    LET active == peer.projects[findById(peer.projects, peer.activeProjectId)]
        basePrefix == Str_ActiveProject \o active.name \o <<" ", "(">> \o active.id
                         \o <<")", ".">>
        guardrail == IF peer.pendingReset = TRUE THEN <<AntiBleed>> ELSE <<>>
        note == IF Truthy(active.note)
                THEN trim(clampText(active.note, maxInjectedNoteChars))
                ELSE <<>>
        notes == IF note # <<>> THEN <<Str_ProjectNotes, note>> ELSE <<>>
    IN clampText(join(<<basePrefix>> \o guardrail \o notes, <<"\n">>), maxPrefixChars)

\* a name of n letters
letters(n) == [i \in 1..n |-> "a"]

\* the lengths of the names given to /projects new
NameLengths == {1, 30, 31, 48, 60}

PrefaceNew ==
    \E p \in Users, n \in NameLengths :
        FramePlain(ArgRequest("new", p, letters(n)),
                   projectsNew(file, p, letters(n), NoNumber, <<"a">>, now))

PrefaceSwitch ==
    \E p \in Users, n \in NameLengths :
        FramePlain(ArgRequest("switch", p, letters(n)),
                   projectsSwitch(file, p, letters(n), NoNumber, now))

PrefaceOn ==
    \E p \in Users :
        FramePlain(ArgRequest("on", p, Undefined), projectsOn(file, p, NoNumber, now))

\* a message of the peer reaches the agent: the pre-turn hook runs
PrefaceBeforeAgentStart ==
    \E p \in Users :
      \E h \in {beforeAgentStart(TheCache, file, mtimeMs, p, now)} :
        FrameHooked(ArgRequest("before_agent_start", p, Undefined), h,
                    IF h.lines = <<>> THEN "(undefined)" ELSE "prependContext",
                    IF h.lines = <<>> THEN <<>>
                    ELSE prependContext(
                             ensureDefaultProject(h.seen[p], defaultProjectName, now).peer))

InitPreface ==
    /\ file = NoFile
    /\ now = 0
    /\ req = NoRequest
    /\ reply = ""
    /\ io = <<>>
    /\ copied = NoCopy
    /\ found = NoPending
    /\ shown = <<>>
    /\ earlier = {}
    /\ selected = 0
    /\ stored = {}
    /\ ApartIdle

NextPreface ==
    \/ PrefaceNew
    \/ PrefaceSwitch
    \/ PrefaceOn
    \/ PrefaceBeforeAgentStart

SpecPreface == InitPreface /\ [][NextPreface]_vars

\* ------------------------------------------------------------------------
\* Vocabulary of the properties.  A step is the handling of the command req';
\* Before and After are its peer's record in state.json around the step.
\* ------------------------------------------------------------------------

Before == loadStore(file)[req'.peer]

After == loadStore(file')[req'.peer]

IsConfirm == req'.cmd \in {"wipe confirm", "wipe project confirm"}

\* a wipe is armed for the peer when the command arrives
Armed == Before.pendingWipe # NoPending

\* the confirm arrives at most 120 seconds after the arm
InWindow == now - Before.pendingWipe.createdAtMs <= 120 * 1000

\* the confirm is of the armed kind and, for a project, names the armed target
RightScope ==
    \/ req'.cmd = "wipe confirm" /\ Before.pendingWipe.kind = "all"
    \/ /\ req'.cmd = "wipe project confirm"
       /\ Before.pendingWipe.kind = "project"
       /\ Before.pendingWipe.projectId = req'.projectId

RightNonce == req'.nonce # "" /\ req'.nonce = Before.pendingWipe.nonce

ValidConfirm == IsConfirm /\ Armed /\ InWindow /\ RightNonce /\ RightScope

\* the replies that refuse a confirm
Refusals ==
    {"Refused: nonce expired.", "Refused: nonce mismatch or wrong scope.",
     "Refused: nonce mismatch or wrong projectId."}

\* the store writes of a handler that follow its backup copy: the wipes it made
WipeWrites(calls) ==
    Cardinality({i \in DOMAIN calls :
                    calls[i] = "write" /\ \E j \in 1..(i - 1) : calls[j] = "cp-backup"})

\* the handler stopped at its backup copy or at the rename: that call failed
Aborted == io' # <<>> /\ io'[Len(io')] \in {"cp-backup", "rename"}

ProjectIdsOf(peer) == {peer.projects[i].id : i \in DOMAIN peer.projects}

\* a project list with every absent tokens array read as the empty one
Normal(projects) ==
    [i \in DOMAIN projects |-> [projects[i] EXCEPT !.tokens = TokensOf(projects[i].tokens)]]

\* "proj-" + slug of the configured default name "General"
GeneralId == <<"p", "r", "o", "j", "-", "g", "e", "n", "e", "r", "a", "l">>

\* the peer of the last command, as state.json holds it now
Current == loadStore(file)[req.peer]

\* ------------------------------------------------------------------------
\* C1
\* ------------------------------------------------------------------------

\* C1 as stated: a confirm with the armed nonce, kind and target inside the
\* window executes the wipe exactly once and leaves no pending wipe.
C1_ValidConfirmAlwaysExecutes ==
    [][ValidConfirm => (WipeWrites(io') = 1 /\ After.pendingWipe = NoPending)]_vars

\* C1, amended: a confirm with the armed nonce, kind and target inside the
\* window leaves no pending wipe; it executes the wipe exactly once, unless its
\* backup copy or the rename fails, and then it executes no wipe and removes no
\* project.  A confirm that finds no pending wipe (as a replay of the nonce does
\* until a new wipe is armed) is answered "No wipe pending." and touches nothing.
C1_ValidConfirmExecutesOnce ==
    [][/\ ValidConfirm =>
            /\ After.pendingWipe = NoPending
            /\ IF Aborted
               THEN WipeWrites(io') = 0 /\ After.projects = Before.projects
               ELSE /\ WipeWrites(io') = 1
                    /\ req'.cmd = "wipe confirm" => ProjectIdsOf(After) = {GeneralId}
                    /\ req'.cmd = "wipe project confirm" =>
                           req'.projectId \notin ProjectIdsOf(After)
       /\ (IsConfirm /\ ~Armed) =>
            (reply' = "No wipe pending." /\ file' = file /\ io' = <<>>)]_vars

\* a project wipe was confirmed with the armed nonce and target, and executed
C1_Witness ==
    /\ req.cmd = "wipe project confirm"
    /\ found.kind = "project"
    /\ found.nonce = req.nonce
    /\ found.projectId = req.projectId
    /\ reply = "WIPED project"
    /\ req.projectId \notin ProjectIdsOf(Current)

\* ------------------------------------------------------------------------
\* C2
\* ------------------------------------------------------------------------

\* C2: a confirm whose nonce is not the armed one (or is missing) is refused,
\* clears the pending wipe and wipes nothing: the peer's projects are the ones
\* it had before.
C2_WrongNonceRefused ==
    [][(IsConfirm /\ Armed /\ ~RightNonce) =>
            /\ reply' \in Refusals
            /\ After.pendingWipe = NoPending
            /\ WipeWrites(io') = 0
            /\ After.projects = Before.projects]_vars

\* a wipe-all armed in time was confirmed with a nonce never generated, on a
\* peer with several projects
C2_Witness ==
    /\ req.cmd = "wipe confirm"
    /\ found.kind = "all"
    /\ now - found.createdAtMs <= 120 * 1000
    /\ req.nonce = "ff"
    /\ reply = "Refused: nonce mismatch or wrong scope."
    /\ Len(Current.projects) >= 2
    /\ Current.pendingWipe = NoPending

\* ------------------------------------------------------------------------
\* C3
\* ------------------------------------------------------------------------

\* C3: a confirm that arrives more than 120 seconds after the arm is refused
\* as expired, whatever its nonce, kind and target, wipes nothing and clears the
\* pending wipe; so a wipe is only ever executed on an arm inside the window.
C3_ExpiredRefused ==
    [][/\ (IsConfirm /\ Armed /\ ~InWindow) =>
            /\ reply' = "Refused: nonce expired."
            /\ After.pendingWipe = NoPending
            /\ WipeWrites(io') = 0
            /\ After.projects = Before.projects
       /\ (IsConfirm /\ WipeWrites(io') > 0) => (Armed /\ InWindow)]_vars

\* a project wipe was confirmed with the armed nonce and target, too late
C3_Witness ==
    /\ req.cmd = "wipe project confirm"
    /\ found.kind = "project"
    /\ found.nonce = req.nonce
    /\ found.projectId = req.projectId
    /\ now - found.createdAtMs > 120 * 1000
    /\ reply = "Refused: nonce expired."
    /\ req.projectId \in ProjectIdsOf(Current)

\* ------------------------------------------------------------------------
\* C4
\* ------------------------------------------------------------------------

\* C4 as stated: in a confirmed wipe the backup copy is completed before any
\* write of state.json: no write comes between the arrival of the confirm and
\* the backup copy.
C4_BackupBeforeAnyWrite ==
    (req.cmd \in {"wipe confirm", "wipe project confirm"}) =>
        \A i, j \in DOMAIN io : (io[i] = "write" /\ io[j] = "cp-backup") => j < i

\* ------------------------------------------------------------------------
\* C5
\* ------------------------------------------------------------------------

\* a command that asks for the wipe of the default project
TargetsDefault ==
    req'.cmd \in {"reset remove", "wipe project confirm"} /\ req'.projectId = GeneralId

\* the replies that refuse such a command
DefaultRefusals ==
    Refusals \cup {"Refused: default project cannot be wiped.",
                   "No Projects state yet for this DM.", "No wipe pending."}

C8_OtherPeersUntouched ==
    [][ValidConfirm =>
            \A q \in Peers \ {req'.peer} : loadStore(file')[q] = loadStore(file)[q]]_vars

\* ------------------------------------------------------------------------
\* C9
\* ------------------------------------------------------------------------

\* C9: a confirm with the armed nonce but of the other kind, or a project
\* confirm that names another project than the armed one, is refused, wipes
\* nothing and clears the pending wipe.
C9_WrongScopeRefused ==
    [][(IsConfirm /\ Armed /\ RightNonce /\ ~RightScope) =>
            /\ reply' \in Refusals
            /\ WipeWrites(io') = 0
            /\ After.projects = Before.projects
            /\ After.pendingWipe = NoPending]_vars

\* a project confirm inside the window, with the armed nonce, named another
\* existing project than the armed one and was refused
C9_Witness ==
    /\ req.cmd = "wipe project confirm"
    /\ found.kind = "project"
    /\ found.nonce = req.nonce
    /\ found.projectId # req.projectId
    /\ now - found.createdAtMs <= 120 * 1000
    /\ reply = "Refused: nonce mismatch or wrong projectId."
    /\ {found.projectId, req.projectId} \subseteq ProjectIdsOf(Current)
    /\ Current.pendingWipe = NoPending

\* ------------------------------------------------------------------------
\* C10
\* ------------------------------------------------------------------------

\* C10: wipe cancel always answers "Cancelled", pending wipe or not; after it
\* the peer has no pending wipe and is otherwise as before (projects, tokens,
\* enabled flag, active, previous and last project), and so is every other peer.
C10_CancelClearsOnlyPending ==
    [][req'.cmd = "wipe cancel" =>
            /\ reply' = "Cancelled. Nothing was deleted."
            /\ After.pendingWipe = NoPending
            /\ After = [Before EXCEPT !.pendingWipe = NoPending]
            /\ \A q \in Peers \ {req'.peer} : loadStore(file')[q] = loadStore(file)[q]]_vars

\* an armed wipe was cancelled on a peer with several projects
C10_Witness ==
    /\ req.cmd = "wipe cancel"
    /\ found # NoPending
    /\ reply = "Cancelled. Nothing was deleted."
    /\ Current.pendingWipe = NoPending
    /\ Len(Current.projects) >= 2

\* ------------------------------------------------------------------------
\* C11
\* ------------------------------------------------------------------------

\* the command arms a wipe: /projects wipe always does, reset remove does when
\* it answers with the confirmation prompt
Arms ==
    \/ req'.cmd = "wipe"
    \/ req'.cmd = "reset remove" /\ reply' = "This will wipe ONE project for this DM"

\* the one pending wipe of the peer is the one this command armed: its kind and
\* target are the command's, it is created now, and nothing of the pending
\* wipe the command found is left
ArmedNow ==
    /\ After.pendingWipe # NoPending
    /\ After.pendingWipe.createdAtMs = now
    /\ After.pendingWipe.nonce \in ArmNonces
    /\ \/ /\ req'.cmd = "wipe"
          /\ After.pendingWipe.kind = "all"
          /\ After.pendingWipe.projectId = Undefined
       \/ /\ req'.cmd = "reset remove"
          /\ After.pendingWipe.kind = "project"
          /\ After.pendingWipe.projectId = req'.projectId

\* the confirm carries the nonce of an arm that was replaced, and that nonce
\* is not the one of the pending wipe
CarriesEarlierNonce ==
    IsConfirm /\ req'.nonce \in earlier /\ req'.nonce # Before.pendingWipe.nonce

\* C11: a peer has one pending wipe at most.  Arming, of either kind, while a
\* wipe is armed puts the new pending wipe in the place of the old one, and
\* from then on a confirm that carries the nonce of the replaced arm is
\* refused: it executes no wipe and removes no project.
C11_ArmReplacesEarlierNonceRefused ==
    [][/\ Arms => ArmedNow
       /\ CarriesEarlierNonce =>
              /\ WipeWrites(io') = 0
              /\ reply' \in Refusals \cup {"No wipe pending."}
              /\ After.projects = Before.projects
              /\ After.pendingWipe = NoPending]_vars

\* a wipe armed with 0a was replaced by one armed with 0b, and the confirm that
\* carried 0a was refused
C11_Witness ==
    /\ req.cmd \in {"wipe confirm", "wipe project confirm"}
    /\ req.nonce \in earlier
    /\ found # NoPending
    /\ found.nonce # req.nonce
    /\ reply \in Refusals

\* ------------------------------------------------------------------------
\* C12
\* ------------------------------------------------------------------------

\* the confirm made its backup copy and the copy failed, the plugin directory
\* being there
BackupFailed == IsConfirm /\ copied'.dir # NoNumber /\ ~copied'.complete

\* the projects with their tokens, the global tokens, the enabled flag and
\* the active, previous and last references of peer q are those of before
SameProjectsState(q) ==
    /\ (loadStore(file')[q] = NoPeer) = (loadStore(file)[q] = NoPeer)
    /\ loadStore(file')[q].projects = loadStore(file)[q].projects
    /\ loadStore(file')[q].globalTokens = loadStore(file)[q].globalTokens
    /\ loadStore(file')[q].projectsEnabled = loadStore(file)[q].projectsEnabled
    /\ loadStore(file')[q].activeProjectId = loadStore(file)[q].activeProjectId
    /\ loadStore(file')[q].previousProjectId = loadStore(file)[q].previousProjectId
    /\ loadStore(file')[q].lastProjectId = loadStore(file)[q].lastProjectId

\* C12: when the backup copy of a confirmed wipe fails, for another reason
\* than the plugin directory being absent, the wipe is aborted: no wipe is
\* written, and the projects, tokens, enabled flag and active, previous and
\* last references of every peer are as they were before the confirm.
C12_BackupFailureAbortsWipe ==
    [][BackupFailed =>
          /\ WipeWrites(io') = 0
          /\ io'[Len(io')] = "cp-backup"
          /\ \A q \in Peers : SameProjectsState(q)]_vars

\* a confirm with the armed nonce whose backup copy failed, on a peer that
\* holds two projects or more and still holds them
C12_Witness ==
    /\ req.cmd \in {"wipe confirm", "wipe project confirm"}
    /\ found # NoPending
    /\ req.nonce = found.nonce
    /\ copied.dir # NoNumber
    /\ ~copied.complete
    /\ Len(Current.projects) >= 2

\* ------------------------------------------------------------------------
\* C13
\* ------------------------------------------------------------------------

\* C13: project-scoped memory is isolated per project.  For two distinct
\* projects A and B of a peer, a token remembered while A was the project
\* made active is not listed by /memory list while B is the project made
\* active, unless it was remembered while B was the one made active too.
C13_MemoryIsolatedPerProject ==
    [][req'.cmd = "memory list" =>
          \A i \in DOMAIN shown' :
              \A a \in DOMAIN After.projects :
                  (a # selected' /\ <<a, shown'[i]>> \in stored)
                      => <<selected', shown'[i]>> \in stored]_vars

\* ------------------------------------------------------------------------
\* C14
\* ------------------------------------------------------------------------

\* the places of the non-archived projects of the peer whose name is the
\* argument of the command, whatever the case of the letters
Namesakes ==
    {i \in DOMAIN Before.projects :
        /\ ~IsArchived(Before.projects[i])
        /\ toLowerCase(Before.projects[i].name) = toLowerCase(req'.arg)}

\* a collection as to which projects it holds: every project with its id,
\* name, creation time, note, archived flag and tokens (an absent tokens array
\* read as the empty one), in order; the time of last use is left out
Members(projects) ==
    [i \in DOMAIN projects |->
        [projects[i] EXCEPT !.tokens = TokensOf(projects[i].tokens), !.lastUsedAt = 0]]

\* the collection that the same /projects new leaves when it is sent once more
\* at time t
NewAgain(t) ==
    loadStore(projectsNew(file', req'.peer, req'.arg, NoNumber, <<"a">>, t).file)[req'.peer].projects

Live(projects) == Cardinality({i \in DOMAIN projects : projects[i].archived # TRUE})

\* /projects new arrives when the peer holds maxProjects non-archived projects
NewAtLimit == req'.cmd = "new" /\ Live(Before.projects) = maxProjects

RefusedByValidation ==
    \/ req'.cmd = "switch" /\ reply' = "Project not found"
    \/ req'.cmd = "new" /\ reply' = "Project limit reached"

\* C16: a switch that is refused (unknown or archived project) and a new that
\* is refused (project limit reached) leave state.json as it was before the
\* command: the peer's record, with its projects-enabled flag, its active,
\* previous and last references and its pending-reset flag, is unchanged.
C16_RefusalsLeaveStoreUnchanged ==
    [][RefusedByValidation =>
          /\ file' = file
          /\ After.projectsEnabled = Before.projectsEnabled
          /\ After.activeProjectId = Before.activeProjectId
          /\ After.previousProjectId = Before.previousProjectId
          /\ After.lastProjectId = Before.lastProjectId
          /\ After.pendingReset = Before.pendingReset]_vars

\* ------------------------------------------------------------------------
\* C17
\* ------------------------------------------------------------------------

\* C17: whatever the PeerState (any projects, any archived flags, any
\* activeProjectId), after ensureDefaultProject the collection is not empty and
\* activeProjectId is the id of a project of the collection that is not
\* archived.
C17_EnsureDefaultGivesLiveActive ==
    [][req'.cmd = "list" =>
          /\ After.projects # <<>>
          /\ \E i \in DOMAIN After.projects :
                 /\ After.projects[i].id = After.activeProjectId
                 /\ After.projects[i].archived # TRUE]_vars

\* ------------------------------------------------------------------------
\* C18
\* ------------------------------------------------------------------------

\* C18: in every state of state.json that commands reach from an empty store,
\* every peer record of the store holds a project that is not archived.
C18_EveryPeerHasLiveProject ==
    \A q \in Peers :
        loadStore(file)[q] # NoPeer =>
            \E i \in DOMAIN loadStore(file)[q].projects :
                loadStore(file)[q].projects[i].archived # TRUE

\* ------------------------------------------------------------------------
\* C19
\* ------------------------------------------------------------------------

\* C19: in every state of state.json that commands reach, from an empty store
\* or from a store with a legacy peer whose default project has the id
\* "proj-inbox", every peer record with a non-empty collection has an
\* activeProjectId that is the id of a project of that collection.
C19_ActiveIdIsInCollection ==
    \A q \in Peers :
        loadStore(file)[q].projects # <<>> =>
            \E i \in DOMAIN loadStore(file)[q].projects :
                loadStore(file)[q].projects[i].id = loadStore(file)[q].activeProjectId

\* ------------------------------------------------------------------------
\* C20
\* ------------------------------------------------------------------------

\* C20: project ids are unique per peer.  After any sequence of /projects new
\* with any names, no two projects of a peer have the same id.
C20_ProjectIdsUnique ==
    \A q \in Peers :
        \A i, j \in DOMAIN loadStore(file)[q].projects :
            i # j => loadStore(file)[q].projects[i].id # loadStore(file)[q].projects[j].id

\* ------------------------------------------------------------------------
\* C21
\* ------------------------------------------------------------------------

\* C21: at every instant, a crash at any step of a write and two writes in
\* flight included, state.json is absent or holds one complete document, the
\* prior one or one passed to writeJsonAtomic; a truncated or partly written
\* document is never seen at its path.
C21_BackingFileAbsentOrComplete ==
    \/ disk.state = 0
    \/ \E d \in Writers \cup {PriorDoc} : disk.ino[disk.state] = Complete(d)

\* ------------------------------------------------------------------------
\* C22  A command whose store write failed returns no success reply: the
\* failed write ends the handler before its return statement, so after a
\* step whose last file-system call is a failed store write the reply is
\* none of Created, Switched, Projects ON/OFF, Saved, WIPED or Cancelled.
\* ------------------------------------------------------------------------

SuccessReplies ==
    {"Created and switched to project", "Switched to existing project",
     "Switched to project", "Projects ON.", "Projects OFF (Classic).",
     "Saved in project", "Saved globally", "WIPED ALL projects state for this DM.",
     "WIPED project", "Cancelled. Nothing was deleted."}

WriteFailed == io' # <<>> /\ io'[Len(io')] = "write-failed"

WellFormed ==
    /\ input.kind = "json"
    /\ input.data.top.type = "object"
    /\ input.data.version = JsNumber(1)
    /\ input.data.peers.type \in {"object", "array"}

C23_LoadNeverRaises ==
    output # <<>> =>
        /\ ~output.raised
        /\ output.value = IF WellFormed THEN input.data ELSE EmptyStore

\* a file that cannot be read was loaded as the empty store
C23_Witness ==
    /\ output # <<>>
    /\ input.kind = "unreadable"
    /\ output = Returned(EmptyStore)

\* ------------------------------------------------------------------------
\* C24  Read-after-write consistency of the store cache: when a command has
\* completed its store write, the next cached read of a hook returns the
\* store as just written, however little time has passed since the cache was
\* loaded.  Here: a pre-turn hook that runs right after a command is given
\* the store that state.json holds.
\* ------------------------------------------------------------------------

AfterCommand == req.cmd \in {"on", "off", "new", "switch"}

HookRuns == req'.cmd = "before_agent_start"

C24_HookReadsStoreAsWritten ==
    [][(AfterCommand /\ HookRuns) => seen' = Cached(loadStore(file))]_vars

\* ------------------------------------------------------------------------
\* C25  The peer-key derivations agree for one Telegram DM peer: for every
\* peer id, mixed-case ones included, the key of the command rule, the key
\* of the pre-turn hook rule for a session key ending in ":telegram:dm:" and
\* the id, and the key of the routing hook are the same string.
\* ------------------------------------------------------------------------

C25_PeerKeysAgree ==
    /\ (output.command # <<>> /\ output.hook # <<>>) => output.command = output.hook
    /\ (output.command # <<>> /\ output.routing # <<>>) => output.command = output.routing
    /\ (output.hook # <<>> /\ output.routing # <<>>) => output.hook = output.routing

\* ------------------------------------------------------------------------
\* C26  The anti-bleed instruction is one-shot per switch: with projects
\* enabled, the first pre-turn hook invocation after a successful switch
\* (switch, new, on) includes the instruction and persists the cleared
\* pending-reset flag, and no later invocation includes it until another
\* switch.
\* ------------------------------------------------------------------------

EnabledFor(p) == loadStore(file)[p] # NoPeer /\ loadStore(file)[p].projectsEnabled = TRUE

C26_AntiBleedOncePerSwitch ==
    [][(HookRuns /\ EnabledFor(req'.peer)) =>
          /\ includes(shown', "Ignore any context") <=> owed
          /\ owed => loadStore(file')[req'.peer].pendingReset = FALSE]_vars

\* ------------------------------------------------------------------------
\* C27  With hard isolation on and projects enabled, the routing hook
\* chooses the previous project when the event's message id is strictly less
\* than the recorded effective-from id and the active project otherwise (no
\* message id and no effective-from id included), and returns the base key,
\* ":proj:" and the sanitized id of the chosen project.
\* ------------------------------------------------------------------------

RouteRuns ==
    /\ req'.cmd = "resolve_room_key"
    /\ req'.arg = <<TRUE, "telegram", "dm">>
    /\ EnabledFor(req'.peer)

\* the id the claim names, for the peer as state.json records it
ChosenId ==
    LET peer == loadStore(file)[req'.peer]
    IN IF req'.messageId # NoNumber /\ peer.effectiveFromMessageId # NoNumber
          /\ req'.messageId < peer.effectiveFromMessageId
       THEN peer.previousProjectId
       ELSE peer.activeProjectId

C27_RoutesByEffectiveFrom ==
    [][RouteRuns =>
          shown' = BaseRoomKey \o Str_colonproj \o sanitizeRoomKeySuffixToken(ChosenId)]_vars

\* ------------------------------------------------------------------------
\* C28  ensureDefault is idempotent: for every PeerState value and default
\* name, a second call made right after a first returns changed = false and
\* leaves the state unchanged.
\* ------------------------------------------------------------------------

SwitchSucceeds == req'.cmd = "switch" /\ reply' = "Switched to project"

\* the id that was active when the command arrived
PriorActive ==
    IF Before # NoPeer /\ Truthy(Before.activeProjectId)
    THEN Before.activeProjectId
    ELSE defaultProjectId

C29_SwitchBookkeeping ==
    [][SwitchSucceeds =>
          \E after \in {After}, prior \in {PriorActive} :
            \E P \in {findProject(after, req'.arg)} :
              /\ P # 0
              /\ after.previousProjectId = prior
              /\ after.activeProjectId = after.projects[P].id
              /\ after.lastProjectId = after.projects[P].id
              /\ after.projects[P].lastUsedAt = now
              /\ after.pendingReset = TRUE
              /\ req'.messageId # NoNumber =>
                    after.effectiveFromMessageId = req'.messageId]_vars

\* a switch with message id 7 away from another project has been recorded
C29_Witness ==
    /\ req.cmd = "switch"
    /\ reply = "Switched to project"
    /\ req.messageId = 7
    /\ loadStore(file)[req.peer].effectiveFromMessageId = 7
    /\ loadStore(file)[req.peer].activeProjectId = req.arg
    /\ Truthy(loadStore(file)[req.peer].previousProjectId)
    /\ loadStore(file)[req.peer].previousProjectId # req.arg

\* ------------------------------------------------------------------------
\* C30  Turning projects ON selects the active project by priority: the
\* last-used project if it is present and not archived, else the current
\* active project if present and not archived, else the first project that
\* is not archived; in particular off followed by on, with no command in
\* between, leaves activeProjectId as it was before off.
\* ------------------------------------------------------------------------

\* the peer as /projects on finds it, after ensureDefault
Healed == ensureDefaultProject(peerFor(file, req'.peer), defaultProjectName, now).peer

\* the place of the project the priority rule names, 0 when it names none
ByPriority(peer) ==
    IF Truthy(peer.lastProjectId) /\ findLiveById(peer.projects, peer.lastProjectId) # 0
    THEN findLiveById(peer.projects, peer.lastProjectId)
    ELSE IF Truthy(peer.activeProjectId)
            /\ findLiveById(peer.projects, peer.activeProjectId) # 0
    THEN findLiveById(peer.projects, peer.activeProjectId)
    ELSE findLive(peer.projects)

C30_OnSelectsByPriority ==
    [][req'.cmd = "on" =>
          \E healed \in {Healed}, after \in {After} :
            /\ ByPriority(healed) # 0 =>
                  after.activeProjectId = healed.projects[ByPriority(healed)].id
            /\ (req.cmd = "off" /\ req.peer = req'.peer /\ Truthy(beforeOff)) =>
                  after.activeProjectId = beforeOff]_vars

\* ------------------------------------------------------------------------
\* C31  After a confirmed wipe-one of project X, each of activeProjectId,
\* previousProjectId and lastProjectId that referred to X refers to the
\* default project, and the pending-reset flag is set when at least one of
\* them referred to X.
\* ------------------------------------------------------------------------

\* the step is a wipe-one that went through
WipedOne == req'.cmd = "wipe project confirm" /\ reply' = "WIPED project"

\* id names the default project of the peer
IsDefaultOf(peer, id) ==
    /\ id = defaultProjectId
    /\ \E i \in DOMAIN peer.projects : peer.projects[i].id = id

C31_WipedReferencesGoToDefault ==
    [][WipedOne =>
          \E before \in {Before}, after \in {After}, X \in {req'.projectId} :
            /\ before.activeProjectId = X => IsDefaultOf(after, after.activeProjectId)
            /\ before.previousProjectId = X => IsDefaultOf(after, after.previousProjectId)
            /\ before.lastProjectId = X => IsDefaultOf(after, after.lastProjectId)
            /\ X \in {before.activeProjectId, before.previousProjectId,
                      before.lastProjectId} => after.pendingReset = TRUE]_vars

\* ------------------------------------------------------------------------
\* C32  The store cache is never the source of a mutation: a store write
\* performed by a hook (self-heal or clearing the one-shot flag) never
\* replaces a change that a command persisted before the hook started; after
\* the hook's write, the active project, projects, tokens and pending wipe
\* last persisted by commands are still in the store.
\* ------------------------------------------------------------------------

\* the step is a hook invocation that wrote state.json
HookWrote == req'.cmd = "before_agent_start" /\ io' # <<>>

\* what the commands persisted for a peer, as the hook's own changes (the
\* self-healing and the cleared flag) leave it
Persisted(peer) ==
    IF peer = NoPeer THEN NoPeer
    ELSE [ensureDefaultProject(peer, defaultProjectName, now).peer
            EXCEPT !.pendingReset = FALSE]

\* the fields of a peer that commands persist
Kept(peer) ==
    IF peer = NoPeer THEN <<>>
    ELSE <<peer.activeProjectId, peer.projects, peer.globalTokens, peer.pendingWipe>>

C32_HookWriteKeepsCommandChanges ==
    [][HookWrote =>
          \E before \in {loadStore(file)}, after \in {loadStore(file')} :
            \A p \in Users :
                Kept(after[p]) =
                    Kept(IF p = req'.peer THEN Persisted(before[p]) ELSE before[p])]_vars

\* ------------------------------------------------------------------------
\* C33  Commands for different peers do not interfere: for every
\* interleaving, at file I/O suspension points, of a command for peer A and
\* a command for peer B # A (including a wipe-all for A that is in the
\* middle of its directory swap), the final persisted store contains the
\* effect of both commands and the unchanged state of every third peer.
\* ------------------------------------------------------------------------

\* both handlers have returned
BothDone == Len(tasks) = 2 /\ \A i \in DOMAIN tasks : tasks[i].pc = "done"

\* the two commands are for different peers
TwoPeers == Len(tasks) = 2 /\ tasks[1].peer # tasks[2].peer

\* the record that the command of task k leaves for its peer when it runs
\* alone on the store the two commands found
EffectOf(k) == loadStore(taskAlone(k, k.start).file)[k.peer]

C33_PeersDoNotInterfere ==
    (BothDone /\ TwoPeers) =>
        \A i \in DOMAIN tasks : loadStore(file)[tasks[i].peer] = EffectOf(tasks[i])

\* ------------------------------------------------------------------------
\* C34  The nonce is single-use under concurrency: when two confirm commands
\* carrying the same correct nonce for the same peer interleave at I/O
\* suspension points, at most one of them passes the guard and executes the
\* wipe (backup plus mutation); the other is refused.
\* ------------------------------------------------------------------------

\* the two commands are confirms of one peer
SameConfirm ==
    /\ Len(tasks) = 2
    /\ tasks[1].peer = tasks[2].peer
    /\ tasks[1].cmd \in {"wipe confirm", "wipe project confirm"}

\* the handlers that passed the nonce guard, made their backup and wrote
\* the wiped store
Executed ==
    {i \in DOMAIN tasks :
        /\ tasks[i].passed
        /\ tasks[i].reply \in {"WIPED project", "WIPED ALL projects state for this DM."}}

C34_NonceSingleUse == SameConfirm => Cardinality(Executed) <= 1

\* ------------------------------------------------------------------------
\* C35  A pending wipe changes only through arm, confirm and cancel: the
\* commands on, off, new, switch, list, debug and memory, and both hooks,
\* leave a peer's pending wipe (nonce, kind, target, arm time, backup path)
\* exactly as it was, so an arm followed by such commands can still be
\* confirmed within the window.
\* ------------------------------------------------------------------------

\* the commands and hooks that are not wipe commands
Framed ==
    {"on", "off", "new", "switch", "list", "debug", "memory remember",
     "memory global remember", "memory list", "before_agent_start", "resolve_room_key"}

C35_PendingWipeFramed ==
    [][req'.cmd \in Framed =>
          \A p \in Peers :
              loadStore(file')[p].pendingWipe = loadStore(file)[p].pendingWipe]_vars

\* a command that is not a wipe command has just written state.json for a
\* peer whose wipe is armed
C35_Witness ==
    /\ req.cmd \in Framed
    /\ io # <<>>
    /\ loadStore(file)[req.peer].pendingWipe # NoPending

\* ------------------------------------------------------------------------
\* C36  Routing of a given message is stable across operations that do not
\* change the active project: for every message id m, an on issued while
\* projects are already on, or a confirmed wipe-one of a project that is
\* neither active, previous nor last-used, leaves the project chosen by the
\* routing hook for m the same as before the operation.
\* ------------------------------------------------------------------------

\* the project id that resolve_room_key chooses for message m of a peer,
\* <<>> when it returns undefined
Routed(peer, m) ==
    IF peer = NoPeer \/ peer.projectsEnabled # TRUE THEN <<>>
    ELSE sanitizeRoomKeySuffixToken(
             activeIdFor(ensureDefaultProject(peer, defaultProjectName, now).peer, m))

\* the step is an on with projects already on, or a wipe of a project that
\* was neither active, previous nor last-used
KeepsActive ==
    \/ req'.cmd = "on" /\ Before # NoPeer /\ Before.projectsEnabled = TRUE
    \/ /\ WipedOne
       /\ req'.projectId \notin {Before.activeProjectId, Before.previousProjectId,
                                 Before.lastProjectId}

C36_RoutingStable ==
    [][KeepsActive =>
          \E before \in {Before}, after \in {After} :
            \A m \in EventMessageIds \cup StableMessageIds :
                Routed(after, m) = Routed(before, m)]_vars

\* ------------------------------------------------------------------------
\* C37  Arming a project wipe (reset remove <id>) whose target does not
\* exist, is archived, or is the default project is refused with an error
\* and mutates nothing on an already-initialised peer: no pending wipe is
\* created, and a wipe that was already armed stays armed with its nonce,
\* kind, target and arm time unchanged.
\* ------------------------------------------------------------------------

\* the peer of the command is in state.json and needs no self-healing
Initialised ==
    /\ Before # NoPeer
    /\ ~ensureDefaultProject(Before, defaultProjectName, now).changed

\* the id names the default project, or no project of the peer that is not
\* archived
BadTarget ==
    \/ req'.projectId = defaultProjectId
    \/ ~\E i \in DOMAIN Before.projects :
            /\ Before.projects[i].id = req'.projectId
            /\ Before.projects[i].archived # TRUE

C40_WipeOfInactiveKeepsActive ==
    [][(WipedOne /\ Before.activeProjectId # req'.projectId) =>
          After.activeProjectId = Before.activeProjectId]_vars

\* ------------------------------------------------------------------------
\* C38  Memory token collections have set semantics: after any sequence of
\* memory remember and memory global remember commands, no token appears
\* twice in a project's token list or in the global token list, and tokens
\* appear in the order of their first insertion.
\* ------------------------------------------------------------------------

\* the tokens that the recorded commands saved in a scope, each at the place
\* of the first command that saved it
RECURSIVE firstInsertions(_, _)
firstInsertions(log, scope) ==
    IF log = <<>> THEN <<>>
    ELSE LET front == firstInsertions(SubSeq(log, 1, Len(log) - 1), scope)
             last == log[Len(log)]
         IN IF last[1] = scope /\ ~\E i \in DOMAIN front : front[i] = last[2]
            THEN Append(front, last[2])
            ELSE front

\* no element of the list occurs at two places
NoTokenTwice(tokens) ==
    \A i, j \in DOMAIN tokens : tokens[i] = tokens[j] => i = j

C38_TokensAreOrderedSets ==
    \A p \in Users :
        \E peer \in {loadStore(file)[p]} :
            /\ peer # NoPeer
            /\ NoTokenTwice(TokensOf(peer.globalTokens))
            /\ TokensOf(peer.globalTokens) = firstInsertions(stored, GlobalScope)
            /\ \A i \in DOMAIN peer.projects :
                    /\ NoTokenTwice(TokensOf(peer.projects[i].tokens))
                    /\ TokensOf(peer.projects[i].tokens) =
                           firstInsertions(stored, peer.projects[i].id)

\* a token was saved in the active project, then another one, then the
\* first one again, and the same went for the global list
C38_Witness ==
    /\ Len(stored) >= 3
    /\ \E s \in {GlobalScope, loadStore(file)[req.peer].activeProjectId} :
          /\ stored[1] = <<s, "t2">>
          /\ stored[2] = <<s, "t1">>
          /\ stored[3] = <<s, "t2">>
    /\ reply \in {"Saved in project", "Saved globally"}

\* ------------------------------------------------------------------------
\* C39  Whenever the pre-turn hook clears the pending-reset flag, the preface
\* it returns contains the complete anti-bleed instruction: for every project
\* name and id length the code admits and the default overall budget of 240
\* characters, truncation to the budget never removes or cuts the instruction
\* while the flag is consumed.
\* ------------------------------------------------------------------------

\* the step is a pre-turn hook that found the flag set in state.json and
\* left it cleared
FlagConsumed ==
    /\ req'.cmd = "before_agent_start"
    /\ Before # NoPeer
    /\ Before.pendingReset = TRUE
    /\ After.pendingReset = FALSE

C39_ConsumedFlagCarriesInstruction ==
    [][FlagConsumed => includesString(shown', AntiBleed)]_vars

====
